------------------------------ MODULE Spec2Model ------------------------------
(***************************************************************************)
(* A model of the ZZD log extraction engine of zzdPlot.py:                 *)
(* extract_zzd_data, the compiled patterns it runs and the reference table *)
(* of diagnostic descriptions.                                             *)
(*                                                                         *)
(* A log is a sequence of lines.  Each line is one of the texts the        *)
(* patterns look for, or filler text, and carries its length in bytes, so  *)
(* that the prefix and suffix windows of the engine are cut in bytes.      *)
(* Times are floats whose values are whole hours; Inf is IEEE +infinity.   *)
(***************************************************************************)
EXTENDS Integers, Sequences, FiniteSets, TLC

\* --------------------------------------------------------------------------
\* Reference table (WARNING_DESCRIPTIONS), one row per entry of the dict
\* literal, in source order.
TableRows ==
  <<
    <<"W2000", "Poor model convergence">>,
    <<"W2001", "Conduits with variable x-section are not permitted">>,
    <<"W2002", "Conduits with variable bottom friction are not permitted">>,
    <<"W2003", "Conduits with variable top friction are not permitted">>,
    <<"W2004", "Conduits with variable friction forms are not permitted">>,
    <<"W2005", "Conduits with variable side friction are not permitted">>,
    <<"W2008", "Water level below invert">>,
    <<"W2010", "Poor interpolation u/s">>,
    <<"W2012", "Flow over side spills not calculated">>,
    <<"W2013", "Very small change in flow resulting from correction">>,
    <<"W2014", "Unit running dry">>,
    <<"W2016", "Steady file could not be opened">>,
    <<"W2017", "Extra sections need to be added by the user">>,
    <<"W2018", "Indeterminate reaches have been found">>,
    <<"W2019", "Water level rose beyond the max level of section data">>,
    <<"W2020", "Water level >3m above max level of section data">>,
    <<"W2021", "Solution found with reduced accuracy">>,
    <<"W2023", "Zero areas in Bernoulli Loss unit">>,
    <<"W2024", "Extra sections gave insufficient accuracy">>,
    <<"W2025", "Data error found in RNDSC gate">>,
    <<"W2026", "CONDUIT and RIVER units should not be directly connected">>,
    <<"W2027", "No rules currently valid for RULES unit">>,
    <<"W2031", "Reservoir units in network">>,
    <<"W2032", "Water level outside channel boundary">>,
    <<"W2033", "Zero area calculated at node">>,
    <<"W2034", "Overbank spill units in network">>,
    <<"W2035", "HT boundary at upstream end of reach not permitted">>,
    <<"W2036", "QH boundary at upstream end of reach not permitted">>,
    <<"W2037", "qt boundary at downstream end of reach not permitted">>,
    <<"W2039", "Split/join parameter mismatch">>,
    <<"W2040", "Split estimates are wrong at junction">>,
    <<"W2042", "Illegal tidal constituent">>,
    <<"W2043", "Decreasing cross section distance">>,
    <<"W2044", "Different values for Mannings n within one panel">>,
    <<"W2045", "Water level at or below reservoir invert">>,
    <<"W2046", "Lateral inflows set to zero">>,
    <<"W2047", "Non-rectangular control section with notional weir">>,
    <<"W2048", "Very small change in heads results in large change in flow">>,
    <<"W2050", "Ratio between upstream and downstream areas exceeds 2.0">>,
    <<"W2051", "Estimated theta value is very large">>,
    <<"W2052", "MSL is outside FSR range">>,
    <<"W2053", "Soil is outside FSR range">>,
    <<"W2054", "Urban fraction should not be > 0.808">>,
    <<"W2055", "RSMD is outside FSR range">>,
    <<"W2056", "CWI is outside expected range">>,
    <<"W2057", "Rainfall Profile duration issue">>,
    <<"W2058", "Model convergence criteria were not met">>,
    <<"W2059", "Catchment area is outside FSR range">>,
    <<"W2060", "Conveyance decreases">>,
    <<"W2061", "S1085 is outside FSR range">>,
    <<"W2100", "Invalid value given for modular limit">>,
    <<"W2201", "Friction law not specified correctly in bridge">>,
    <<"W2202", "Bridge calibration factor set to zero">>,
    <<"W2203", "Insignificant flow through arches at USBPR bridge">>,
    <<"W2204", "Bridge is surcharged">>,
    <<"W2205", "Extrapolating base curves">>,
    <<"W2206", "Extrapolating pier curves">>,
    <<"W2207", "Extrapolating pier sigma curves">>,
    <<"W2208", "Extrapolating skew curves">>,
    <<"W2209", "Failed to load convey.dll">>,
    <<"W2211", "Failed to free memory in CES dll">>,
    <<"W2212", "CES dll magic number error">>,
    <<"W2213", "CES dll version error">>,
    <<"W2214", "Failed to set 'Flood Modeller' in CES">>,
    <<"W2215", "Bad gauge data">>,
    <<"W2216", "Gauge limit incompatibility">>,
    <<"W2217", "No method file specified for gauge unit">>,
    <<"W2229", "Trash screen height is set to 0">>,
    <<"W2235", "Variable Percentage Runoff Flag error">>,
    <<"W2236", "Optimum number of internal calculation points exceeded">>,
    <<"W2237", "MUSK-RSEC data error">>,
    <<"W2238", "Panel has very small width">>,
    <<"W2260", "Culvert bend losses coefficient issue">>,
    <<"W2261", "Backflow encountered at culvert bend or loss unit">>,
    <<"W2262", "Backflow encountered CULVERT OUTLET unit">>,
    <<"W2263", "Backflow encountered at CULVERT INLET unit">>,
    <<"W2264", "Level below culvert invert">>,
    <<"W2266", "Level below culvert invert">>,
    <<"W2267", "No sub/supercritical depth could be found">>,
    <<"W2268", "Direct supercritical method cannot handle this configuration">>,
    <<"W2271", "Failed to find minimum of energy function">>,
    <<"W2272", "Energy equation failed to converge">>,
    <<"W2273", "Defaulting to critical depth">>,
    <<"W2274", "Bernoulli loss unit level/area issue">>,
    <<"W2275", "Two levels have zero upstream area">>,
    <<"W2276", "Water level set to adjacent lowest bed level">>,
    <<"W2277", "Last appearance of conduits message">>,
    <<"W2278", "Zero calibration coefficient">>,
    <<"W2279", "Reference velocity exceeds 3 m/s">>,
    <<"W2280", "Estimated theta value is negative">>,
    <<"W2281", "No flow possible with zero coefficient">>,
    <<"W2282", "Minimum/initial timestep has been changed">>,
    <<"W2283", "Conduit section has been reversed">>,
    <<"W2286", "Reservoir/Pond area is smaller than previous">>,
    <<"W2287", "Two levels have zero area">>,
    <<"W2288", "Initial water levels upstream not all equal">>,
    <<"W2289", "Discharge coefficient set to zero">>,
    <<"W2290", "Opening is zero - no flow possible">>,
    <<"W2291", "Initial water level higher than crest of SPILL">>,
    <<"W2292", "Failed to converge to normal depth">>,
    <<"W2293", "Linear interpolation with rainfall data not allowed">>,
    <<"W2294", "Crump, Flat-V weir not connected correctly">>,
    <<"W2295", "Seasonal PMPs extrapolated">>,
    <<"W2296", "Rule interpretation warning">>,
    <<"W2297", "Date/time from Tidal Boundary unit used">>,
    <<"W2298", "Data interval less than one minute">>,
    <<"W2299", "Storm duration not integer multiple of dt">>,
    <<"W2300", "ARF equation for short durations called">>,
    <<"W2301", "Adaptive timestepping parameter issue">>,
    <<"W2302", "Time to peak not integer multiple of data interval">>,
    <<"W2313", "Zero modular limit">>,
    <<"W2314", "Modular limit set to unity or greater">>,
    <<"W2315", "Negative loss coefficient entered">>,
    <<"W2317", "Downstream flow area constrained">>,
    <<"W2318", "Initial adaptive timestep not read from file">>,
    <<"W2319", "Downstream constraining factor not set">>,
    <<"W2320", "Reservoir updating unit not connected to reservoir">>,
    <<"W2321", "Conduit slot dimensions incorrect">>,
    <<"W2322", "Failed to read event data">>,
    <<"W2323", "Unrealistic density input">>,
    <<"W2531", "Cannot find upstream condition for supercritical integration">>,
    <<"W2532", "Model start time is NOT t=0">>,
    <<"W2533", "Volumes not calculated for Muskingum sections">>,
    <<"W2534", "Errors occurred opening/writing to file">>,
    <<"W2535", "c0 scaling factor input error">>,
    <<"N3002", "Very small change in heads results in large change in flow">>,
    <<"N3003", "Percentage runoff calculated as negative">>,
    <<"N3006", "End of backflow at CULVERT INLET unit">>,
    <<"N3007", "End of backflow at CULVERT OUTLET unit">>,
    <<"N3010", "Simplified method used">>,
    <<"N3012", "Zero flow beyond point">>,
    <<"N3013", "Transcritical point(s) occurred">>,
    <<"N3014", "EVENT DATA FILE READ FAILED">>,
    <<"N3015", "Simulation event date/time overrides Tidal Boundary">>,
    <<"N3016", "Tidal Boundary unit with no event date/time">>,
    <<"N3017", "Tidal boundary used with direct method">>,
    <<"N3018", "2D Input Data check completed">>,
    <<"N3019", "User-input PMF time to peak adjustment note">>,
    <<"N3025", "Minimum flow applied at boundary">>,
    <<"N3026", "Initial adaptive timestep read from input file">>,
    <<"N3027", "2d timestep read from tcf file">>,
    <<"N3028", "Data points omitted from deactivated section areas">>,
    <<"N3029", "Duplicated units found">>,
    <<"E1003", "Bernoulli loss - no. of data sets must not be > 30 or < 1">>,
    <<"E1004", "Data read error">>,
    <<"E1005", "Unit unacceptable as first data unit">>,
    <<"E1006", "No. of stage/gate opening datasets < 2">>,
    <<"E1007", "Maximum no of gates exceeded">>,
    <<"E1008", "Maximum number of nodes is exceeded">>,
    <<"E1009", "Maximum number of units is exceeded">>,
    <<"E1011", "Unidentified unit">>,
    <<"E1013", "The EGGFORM option is not yet available, try using a CIRCULAR conduit with a suitable diameter">>,
    <<"E1014", "Supercritical flow between 'label1' and 'label2'. You should use the option for dealing with Froude numbers greater than 1">>,
    <<"E1017", "Negative flow - the direct method cannot handle backflow">>,
    <<"E1018", "Maximum no. of iterations exceeded">>,
    <<"E1019", "No solution found in Direct Method">>,
    <<"E1020", "Water level exceeded maximum section data level dflood">>,
    <<"E1022", "Not a recognised type number / Error writing OTTA file">>,
    <<"E1023", "Generic ERROR - see zzd file / complementary error code">>,
    <<"E1027", "Value of rsmd should not be less than 10">>,
    <<"E1028", "Maximum number of unit hydrograph ordinates exceeded">>,
    <<"E1029", "Error - data interval too small for unit hydrograph calculation or Time to Peak">>,
    <<"E1033", "Incorrect percentage runoff code of 'x' in subroutine prcal">>,
    <<"E1036", "Storm return period of 'x' too small to estimate rainfall depth.">>,
    <<"E1038", "Areal reduction factor equation very inaccurate for durations less than 0.5 hr">>,
    <<"E1039", "Water level below invert.">>,
    <<"E1042", "HTBDY - No of data pairs must be > 1">>,
    <<"E1044", "Previous unit was not a RIVER or CONDUIT">>,
    <<"E1045", "It is not allowed to have interpolated sections here">>,
    <<"E1046", "You must have a RIVER or CONDUIT downstream of INTERPOLATED sections">>,
    <<"E1051", "Format error in numerical data. JUNCTION data error">>,
    <<"E1056", "The direct method cannot be used with automatic controllers">>,
    <<"E1057", "Inconsistencies found in node labels">>,
    <<"E1065", "Variable outside linearization range">>,
    <<"E1066", "Variable outside interpolation range">>,
    <<"E1072", "rn must be greater than 1">>,
    <<"E1073", "cd outside allowed range">>,
    <<"E1074", "cv outside allowed range">>,
    <<"E1075", "Weir breadth must be positive.">>,
    <<"E1079", "Maximum no. of network iterations exceeded">>,
    <<"E1080", "Number of data points is less than 2.">>,
    <<"E1081", "Number of data points is greater than maximum allowed.">>,
    <<"E1091", "FULL ARCH CONDUIT. The height of the crown specified is too high.">>,
    <<"E1094", "Reverse flows not valid in syphon spillways">>,
    <<"E1095", "Decreasing cross section distance found">>,
    <<"E1096", "Panel contains zero and non-zero Manning's n">>,
    <<"E1097", "Cross-section contains all zero Manning's n">>,
    <<"E1098", "Number of height points exceeds maximum">>,
    <<"E1100", "Model is diverging. No solution has been found with the current time step">>,
    <<"E1105", "Time-dependent data in unit doesn't cover the start time of the model duration">>,
    <<"E1106", "Time-dependent data in unit doesn't cover the start time of the model duration">>,
    <<"E1108", "Tolerance for the direct method cannot be negative">>,
    <<"E1109", "Tolerance for the direct method cannot be greater than 0.1">>,
    <<"E1111", "None of the labels in the initial conditions have been tagged.">>,
    <<"E1112", "Number of labels in initial conditions does not match number in data file">>,
    <<"E1113", "Generic data read error">>,
    <<"E1114", "Data error in zzs file">>,
    <<"E1115", "Generic data read error">>,
    <<"E1117", "Data error. Lower Froude Number greater or equal to higher value">>,
    <<"E1118", "Error in reader">>,
    <<"E1119", "Previous unit was not a RIVER or CONDUIT">>,
    <<"E1120", "REPLICATE/INTERPOLATE must be preceded by a RIVER or REPLICATE with dx>0">>,
    <<"E1121", "There is a spill label assigned to the last river unit in a reach.">>,
    <<"E1123", "Unit type may not be connected to reservoir at specified label">>,
    <<"E1128", "You must have at least two consecutive RIVERs or CONDUITs to form a unit.">>,
    <<"E1129", "It is not possible to find a solution with the current time step">>,
    <<"E1131", "Water level outside channel boundary">>,
    <<"E1133", "Extra added sections gave insufficient accuracy">>,
    <<"E1139", "no. of stage/gate opening datasets > 4.">>,
    <<"E1159", "Length of crest in direction of flow must be > 0.1 - rnweir data error">>,
    <<"E1168", "Unit not yet available with the direct method - run terminated">>,
    <<"E1169", "Pump is in stopped mode; This mode is incompatible with the direct method.">>,
    <<"E1179", "Remote upstream control not yet available. For use with the direct method.">>,
    <<"E1184", "Third label required for WATER3 option for remote control mode">>,
    <<"E1185", "Values given must be greater than zero">>,
    <<"E1188", "No gate opening given for MANUAL operation">>,
    <<"E1189", "No initial gate opening given for AUTO operation">>,
    <<"E1195", "Matrix structurally singular. iflag = -1">>,
    <<"E1196", "Matrix numerically singular. iflag = -2">>,
    <<"E1197", "Row or column index out of range. iflag = -12">>,
    <<"E1198", "Dir = 'x' reverse flow direction hn1 = 'y' hn2 = 'z' node = 'n'">>,
    <<"E1199", "Error in spill at line 'l'. bank chainage must increase for each data pair">>,
    <<"E1200", "Maximum gate opening MUST be less than radius plus height of pivot">>,
    <<"E1201", "Gate opening MUST be less than radius plus height of pivot">>,
    <<"E1202", "Gate radius MUST be greater than height of pivot">>,
    <<"E1203", "Number of data points in SPILL unit must be must be greater than 1">>,
    <<"E1210", "Negative flow specified at a Q:T boundary - this is not permitted">>,
    <<"E1211", "Perturbation matrix is singular">>,
    <<"E1219", "cv outside allowed range">>,
    <<"E1221", "rlimit outside allowed range">>,
    <<"E1230", "Suter pump - numerical data outside allowable range">>,
    <<"E1234", "Generic error - see zzd file for further information">>,
    <<"E1237", "SAAR must be positive for event rainfall calculation">>,
    <<"E1238", "Event Rainfall flag is expected to be OBSER, FEHER, FSRER, or PMFER">>,
    <<"E1239", "Positive non-zero value is expected for the OBSERVED event rainfall">>,
    <<"E1241", "Catchment Wetness Index flag is expected to be OBSCW, FSRCW or PMFCW">>,
    <<"E1243", "Percentage Runoff Flag is expected to be BSPR, FEHPR, FSRPR or F16PR">>,
    <<"E1244", "Error in OBSERVED percentage runoff, it must not be > 100.0">>,
    <<"E1245", "Error in OBSERVED percentage runoff, it must not be <0.0">>,
    <<"E1246", "Time to Peak Flag is expected to be OBSTP, FEHTP, F16TP, FSRTP or R124TP">>,
    <<"E1247", "Positive non-zero value is expected for the OBSERVED Time to Peak, TP">>,
    <<"E1248", "Positive non-zero value is expected for the Calibration factor of TP">>,
    <<"E1249", "Base Flow Flag is expected to be OBSBF or F16BF">>,
    <<"E1250", "Positive non-zero value is expected for the catchment area, carea">>,
    <<"E1253", "Unit Hydrograph Flag is expected to be OBSUH, FSRUH, UBRUH or SCSUH">>,
    <<"E1255", "Rainfall Profile Flag is expected to be OBSRP, WINPMP or SUMPMP">>,
    <<"E1256", "Number of rainfall values outside range">>,
    <<"E1258", "ERROR in calculated percentage runoff at subroutine prcal, it is > 100.0">>,
    <<"E1262", "Error in routine interp in fsrqt - value out of range">>,
    <<"E1266", "Calculated no of unit hydro. Ordinates is greater than max allowed">>,
    <<"E1267", "For SUMRP unequal return periods are unacceptable. This can, however, be forced by using the parameter FORCE.">>,
    <<"E1268", "Invalid Velocity Flag specified">>,
    <<"E1269", "Power law constants cannot be negative">>,
    <<"E1285", "Reservoir/Pond level is lower than or the same as the previous level">>,
    <<"E1301", "No flow boundaries have been defined therefore direct steady method is not applicable">>,
    <<"E1302", "No head boundaries have been defined therefore direct steady method is not applicable">>,
    <<"E1324", "Number of q:h data pairs exceeds the maximum permitted">>,
    <<"E1330", "Efficiency values must be greater than zero and less than or equal to one">>,
    <<"E1331", "Optimal head and flow values must both be positive">>,
    <<"E1332", "Number of switch data sets must be > 1">>,
    <<"E1333", "Invalid switch type keyword">>,
    <<"E1334", "Unrecognised pump mode keyword">>,
    <<"E1336", "Missing control label for controller switch type">>,
    <<"E1338", "Time multiples must be positive">>,
    <<"E1339", "Unrecognised pump mode">>,
    <<"E1340", "Number of Suter points must be between 1 and 133">>,
    <<"E1341", "No corresponding pump mode given for MANUAL operation at model time">>,
    <<"E1343", "Number of head, flow, efficiency data sets must be between 1 and 50.">>,
    <<"E1344", "Error reading data in datafile.">>,
    <<"E1345", "Head, flow and efficiency cannot all be simultaneously greater than zero.">>,
    <<"E1346", "Invalid number of switch data sets">>,
    <<"E1347", "Unknown switch type: type code">>,
    <<"E1348", "Unable to find control unit for controller mode">>,
    <<"E1349", "Unknown instruction code for logical switching">>,
    <<"E1401", "Skew angle of bridge > 45 ; Must be in range 0 < =angle < =45.">>,
    <<"E1402", "Width of bridge< =0.0. Data error in bridge unit">>,
    <<"E1403", "Invalid bridge abutment code. Should be 1, 2 or 3. Data error in bridge attached to 'label1', 'label2'">>,
    <<"E1404", "Pier coefficient out of range. Must be >=0.0 and < =8.0. Data error in bridge">>,
    <<"E1405", "Invalid bridge pier description. 'x'(Number of piers), 'y' (type of shape of bridge soffit), 'z' (type of bridge pier cross sectional type). Data error in bridge attached to 'label1', 'label2'.">>,
    <<"E1406", "Number of bridge piers >0 , with Width of bridge piers < =0.">>,
    <<"E1410", "Too many culverts in bridge attached to 'label1','label2'.">>,
    <<"E1411", "Culvert drowning coefficient must be <1. Data error in bridge attached to 'label1','label2'">>,
    <<"E1412", "Culvert invert level is greater than soffit level. Data error in bridge attached to 'label1','label2'.">>,
    <<"E1421", "Number of arches < 0">>,
    <<"E1422", "Number of arches exceeds the maximum">>,
    <<"E1423", "USBPR Bridge error on arch data 'x' (number of arch) x coord of left side of arch must coincide with cross chainage point">>,
    <<"E1431", "Too many markers in bridge channel section">>,
    <<"E1432", "Left or Right markers wrong in bridge section.">>,
    <<"E1510", "Unrecognised direction keyword keyword should be UPSTREAM or DOWNSTREAM">>,
    <<"E1511", "Invalid loss coefficient: Loss coefficient must be value between 0 and 10.">>,
    <<"E1512", "Upstream section for a BEND/LOSS unit in upstream control must be a RIVER or CONDUIT unit.">>,
    <<"E1513", "Invalid loss coefficient: Loss coefficient should be value between 0 and 1.">>,
    <<"E1514", "Unit upstream of a CULVERT OUTLET unit must be RIVER or CONDUIT unit.">>,
    <<"E1515", "Unrecognised conduit type code. Should be A or B">>,
    <<"E1516", "Value of unsubmerged inlet control loss coefficient should be between 0 and 1; current value is x">>,
    <<"E1517", "Value of exponent for inlet control should be between 0 and 3; current value is:x">>,
    <<"E1518", "Value of submerged inlet control loss coefficient should be between 0 and 0.1; current value is x.">>,
    <<"E1519", "Value of submerged inlet control adjustment factor should be between 0 and 1; current value is x">>,
    <<"E1520", "Value of outlet control loss coefficient should be between 0 and 1; current value is x">>,
    <<"E1521", "Value of trash screen width should be greater than 0; current value is x">>,
    <<"E1522", "Value of trash screen bar proportion should be between 0 and 1; current value is x.">>,
    <<"E1523", "Value of trash screen blockage ratio should be between 0 and 1; current value is x.">>,
    <<"E1524", "Value of trash screen head loss coefficient should be greater than 0; current value is x">>,
    <<"E1525", "Unit downstream of a CULVERT INLET unit must be a RIVER or CONDUIT unit.">>,
    <<"E1526", "Maximum number of trans-critical points exceeded">>,
    <<"E1528", "Junction at l1 appears to be neither a join nor a split">>,
    <<"E1529", "Unable to find unit number in list of river reaches">>,
    <<"E1530", "Internal error - invalid trans-critical point">>,
    <<"E1532", "Upstream/downstream nodes of unit are not rivers/conduits.">>,
    <<"E1533", "Cannot find label">>,
    <<"E1534", "Save interval (or timestep) must be positive">>,
    <<"E1536", "Upstream/downstream/remote/constriction section label does not exist.">>,
    <<"E1537", "Upstream and/or downstream river units at bridge not found">>,
    <<"E1538", "Culvert flow failed to converge">>,
    <<"E1539", "Perturbation failed">>,
    <<"E1540", "No nodes found">>,
    <<"E1541", "Country must be ENGLAND, IRELAND, SCOTLAND or WALES">>,
    <<"E1542", "Value of s1085 must be positive for time to peak calculation">>,
    <<"E1543", "Value of MSL/DPSBAR/DPLBAR must be positive for time to peak calculation, or PROPWET must be between 0 and 1.">>,
    <<"E1544", "SOIL must be between 0 and 1.0">>,
    <<"E1545", "Time step must be positive">>,
    <<"E1546", "Urban fraction/extent cannot be <0 or> 1">>,
    <<"E1547", "Storm duration of x is less than or equal to zero">>,
    <<"E1548", "[Time] interpolation error">>,
    <<"E1549", "INTERPOLATE unit must have a positive chainage">>,
    <<"E1550", "A reach has more than 100 interpolated sections (split the reach using a RIVER)">>,
    <<"E1551", "Numb=0 in INTERPOLATE">>,
    <<"E1552", "Total chainage must be positive">>,
    <<"E1555", "Unit type may not be connected to junction">>,
    <<"E1562", "dx must be positive">>,
    <<"E1564", "X number of data points is less than 2">>,
    <<"E1565", "X number of data points greater than maximum">>,
    <<"E1566", "Lateral inflows cannot be used with MUSKINGUM units">>,
    <<"E1567", "Zero wave speed or chainage Ensure that the reach is not dry">>,
    <<"E1568", "Slope must be positive">>,
    <<"E1569", "Channel section data error. At least 2 section points and a positive slope are required for velocity calculation">>,
    <<"E1570", "Attempt to read results from before start of run. Start your run with structure in MANUAL mode">>,
    <<"E1571", "Error attempting to read earlier result">>,
    <<"E1572", "Unrecognised operation type">>,
    <<"E1573", "Weir discharge coefficient must be greater than 0">>,
    <<"E1574", "Surcharged discharge coefficient must be greater than 0">>,
    <<"E1575", "Pump bore area must be greater than 0">>,
    <<"E1576", "Soffit must be higher than invert">>,
    <<"E1577", "Bridge soffit is more than 10m above cross section. Please extend your section data or modify the arch dimensions">>,
    <<"E1578", "icount is zero - arch error">>,
    <<"E1579", "Conduit section should start with x=0 at invert centre line">>,
    <<"E1580", "Unrecognised time factor keyword">>,
    <<"E1581", "Flood Modeller has detected a different label length in the initial conditions file from the value in operation in the datafile. This is not allowed">>,
    <<"E1582", "Maximum number of pond data lines exceeded (max=50)">>,
    <<"E1583", "INTERPOLATE must be preceded by a RIVER or REPLICATE with a positive chainage">>,
    <<"E1584", "Non-channel unit found in the middle of a reach. Reach must end with dx = 0">>,
    <<"E1585", "Length of weir in direction of flow is more than 100 x width of crest. This is not acceptable">>,
    <<"E1586", "Crest length must be positive">>,
    <<"E1587", "Unknown controller operation mode">>,
    <<"E1588", "Unknown sluice gate operation mode">>,
    <<"E1589", "No time data available in switch data set for current model time">>,
    <<"E1590", "Unable to find controller label for controller mode">>,
    <<"E1591", "Unknown controller operation mode">>,
    <<"E1592", "Error in floodplain section at line n. Chainage must be positive for friction flow">>,
    <<"E1593", "First matrix element is zero">>,
    <<"E1594", "Xset points are not all distinct">>,
    <<"E1595", "Gate orientation must be FORWARD or REVERSE">>,
    <<"E1596", "ctc must be greater than 0">>,
    <<"E1597", "cgt must be greater than 0">>,
    <<"E1598", "crev must be greater than 0">>,
    <<"E1599", "dr must be greater than 0">>,
    <<"E1600", "Only one gate is allowed in gated weir">>,
    <<"E1601", "Gate height must be greater than zero">>,
    <<"E1602", "Gate crest higher than max. gate height">>,
    <<"E1603", "Crest is lower than sill">>,
    <<"E1605", "Unit version number n is not supported in this version of Flood Modeller">>,
    <<"E1606", "Negative breach width xm is invalid">>,
    <<"E1607", "Negative breach side slope x is invalid.">>,
    <<"E1608", "Error in breach: unable to fit breach, check the breach and associated spill section">>,
    <<"E1610", "Invalid blockage proportion x. Proportion p must have 0.0 < = P <=1.0">>,
    <<"E1611", "Upstream/Downstream/Constriction unit of a blockage (connected or remote) must be RIVER, CONDUIT or BRIDGE unit.">>,
    <<"E1612", "Invalid loss coefficient: Loss coefficient must be at least 0.">>,
    <<"E1613", "OPEN pump operation is specified but parameters for OPEN operation are not set">>,
    <<"E1614", "Selected node l1 for OLD rules has been removed from the output list">>,
    <<"E1620", "Unit not supported in this version of Flood Modeller">>,
    <<"E1621", "Invalid lateral inflow weight factor (= x) entered for connecting unit">>,
    <<"E1622", "User defined weight factors do not sum to 1.0">>,
    <<"E1623", "Unrecognised connecting boundary node entered">>,
    <<"E1624", "Link to lateral inflow not recognised">>,
    <<"E1625", "Reservoir connected to reach - weighted lateral inflow">>,
    <<"E1627", "Connected Muskingum has zero reach length">>,
    <<"E1628", "Weight factor type not recognised">>,
    <<"E1629", "Muskingum section connected to area distributed lateral">>,
    <<"E1630", "This Muskingum type will not receive lateral inflows">>,
    <<"E1631", "Zero reach length river section connected to lateral inflow">>,
    <<"E1640", "Number of data pairs must be greater than zero">>,
    <<"E1641", "No input data types recognised">>,
    <<"E1642", "No data in l1 at line n before/after x hrs">>,
    <<"E1643", "2 data points with same time">>,
    <<"E1644", "Time values are not increasing">>,
    <<"E1669", "Zero or Negative slope encountered in Normal depth boundary This is not permitted">>,
    <<"E1672", "Remote label not found or not connected to a channel section">>,
    <<"E1673", "No valid path found from upstream to downstream slope extents">>,
    <<"E1674", "No section data specified or available for normal/critical depth boundary">>,
    <<"E1675", "Zero area or width in Critical depth boundary">>,
    <<"E1676", "No sign change detected in normal depth equation. Normal depth could not be calculated">>,
    <<"E1678", "Data error at line n. Dry lower depth greater or equal to dry higher depth">>,
    <<"E1680", "Maximum number 50 of lateral connections for quality run exceeded">>,
    <<"E1681", "Data error at line n. no RAD FILE tag found">>,
    <<"E1682", "Data error at line n. no GENERAL tag found">>,
    <<"E1683", "Failed CES dll function call to SetRoughnessFile">>,
    <<"E1684", "Failed CES dll function call to GetRoughnessLoadingErrors">>,
    <<"E1685", "Failed CES dll function call to AddSection">>,
    <<"E1686", "Failed CES dll function call to Populate Section for section id">>,
    <<"E1687", "Failed CES dll function call to Add Section Roughness for section id">>,
    <<"E1688", "CES dlls have not been initialised">>,
    <<"E1689", "Failed CES dll function call to Calculate Conveyance for section id">>,
    <<"E1690", "Failed CES dll function call to Get Depth Intervals">>,
    <<"E1691", "Failed CES dll function call to Get Eddy Viscosity">>,
    <<"E1692", "Failed CES dll function call to Get Min Depth">>,
    <<"E1693", "Failed CES dll function call to Get No Panels">>,
    <<"E1694", "Failed CES dll function call to GetRelaxation">>,
    <<"E1695", "Failed CES dll function call to Get Temperature">>,
    <<"E1696", "Failed CES dll function call to Get Max Iterations">>,
    <<"E1697", "Failed CES dll function call to Set Relaxation">>,
    <<"E1698", "Failed CES dll function call to Set Depth Intervals">>,
    <<"E1699", "Failed CES dll function call to SetEddyViscosity">>,
    <<"E1700", "Failed CES dll function call to Set Min Depth">>,
    <<"E1701", "Failed CES dll function call to Set No Panels">>,
    <<"E1702", "Failed CES dll function call to Set Max Iterations">>,
    <<"E1703", "Failed CES dll function call to SetTemperature">>,
    <<"E1704", "Failed CES dll function call to GetHytMultiplier">>,
    <<"E1705", "Failed CES dll function call to SetHytMultiplier">>,
    <<"E1706", "Failed function call to fn_requestoutputs_at_timestage for section">>,
    <<"E1707", "Failed function call to fn_get_isis_tables for section">>,
    <<"E1708", "Failed CES dll function call to FnGetMinMax_Output_Elevations for section id">>,
    <<"E1709", "Failed CES dll function call to fngetmaxarea for section">>,
    <<"E1720", "Too many substrings in rule">>,
    <<"E1721", "Parse error in rule">>,
    <<"E1722", "Logical storage capacity exceded in rule l1">>,
    <<"E1723", "Error in rule l1">>,
    <<"E1724", "Failed CES dll function call to SetConvTolerance">>,
    <<"E1725", "Failed CES dll function call to GetConvTolerance">>,
    <<"E1726", "Failed CES dll function call to SetConveyanceType">>,
    <<"E1727", "Rule l1 has already been defined. Note that only the first 10 characters of the name are significant.">>,
    <<"E1728", "Rule ALL is not valid. It could be confused with the keyword ALL in the TIME RULE DATA SET.">>,
    <<"E1729", "Fatal error in 2D solver">>,
    <<"E1730", "Indeterminate flow direction in qxbdy">>,
    <<"E1800", "Unknown bank type for section id">>,
    <<"E1801", "Sinuosity can only provided on a left bank in section id">>,
    <<"E1802", "Even number of bank markers required for section id">>,
    <<"E1803", "Put roughness chainage in ascending order for section id">>,
    <<"E1804", "Put section chainage in ascending order for section id">>,
    <<"E1805", "RO bank marker must follow LI for section id">>,
    <<"E1806", "RI bank marker must follow LO for section id">>,
    <<"E1807", "LI bank marker must follow RO for section id">>,
    <<"E1808", "LO bank marker must follow RI for section id">>,
    <<"E1809", "RS bank marker must follow LS for section id">>,
    <<"E1810", "LS bank marker must follow RS for section id">>,
    <<"E1811", "Date out of range in section">>,
    <<"E1813", "No section data to calculate conveyance for section id">>,
    <<"E1814", "No roughness data to calculate conveyance for section id">>,
    <<"E1815", "Roughness zone not found in roughness file for section id">>,
    <<"E1818", "[No message]">>,
    <<"E1819", "Data error at line X. failed to load roughness file.">>,
    <<"E1820", "Non unique section name found for section id/replicate">>,
    <<"E1821", "Start date is out of the range specified in the roughness file for section id">>,
    <<"E1822", "Finish date is out of the range specified in the roughness file for section id">>,
    <<"E1824", "Section not found">>,
    <<"E1825", "At least two bank markers required for section id">>,
    <<"E1827", "Failed CES dll function call to FnAddInterpolate for interpolated section, cannot find upstream section for section id">>,
    <<"E1828", "Failed CES dll function call to FnAddInterpolate for interpolated section, cannot find downstream section for section id">>,
    <<"E1830", "Cannot find urban unit.">>,
    <<"E1831", "This urban throughflow unit is not associated with an urban unit.">>,
    <<"E1832", "The data store cannot accurately store the urban unit's number.">>,
    <<"E1900", "Cannot allocate memory, status = n">>,
    <<"E1926", "One of many E1926 errors">>,
    <<"E1999", "One of many E1999 errors">>
  >>

TableKeys == {TableRows[i][1] : i \in DOMAIN TableRows}

WARNING_DESCRIPTIONS ==
  [c \in TableKeys |->
     TableRows[CHOOSE i \in DOMAIN TableRows : TableRows[i][1] = c][2]]

\* --------------------------------------------------------------------------
\* Bounds of the model.
MaxUnits == 3          \* log fragments per log
MaxRepeatUnits == 1    \* log fragments per log when two calls are compared
Inf == 1000000         \* stands for IEEE +infinity: above every finite time

\* --------------------------------------------------------------------------
\* Python values.
None == <<>>
Some(x) == <<x>>

\* float(tok) of a token matched by (\d+\.?\d*).  A digit token is written as
\* the number it denotes; a numeral of more than 309 digits is written Inf,
\* and float() of it is inf (no error is raised).
FloatOfDigits(tok) == IF tok >= Inf THEN Inf ELSE tok

\* x + y on floats: inf absorbs every finite value.
FAdd(x, y) == IF x >= Inf \/ y >= Inf \/ x + y >= Inf THEN Inf ELSE x + y

\* float(tok) of a token matched by (\S+): the value in thousandths for the
\* tokens that are float literals, None for a token float() rejects with
\* ValueError.
FloatOfToken(tok) ==
  CASE tok = "0.003" -> Some(3)
    [] tok = "3e-3"  -> Some(3)
    [] tok = "0.012" -> Some(12)
    [] tok = "-0.5"  -> Some(0 - 500)
    [] OTHER         -> None

\* bytes.decode('utf-8', errors='ignore') of a token, a sequence of bytes:
\* a byte that is not valid UTF-8 ("\\xff") is dropped.
BadByte == "\\xff"
\* Variant: errors='replace', each such byte becomes U+FFFD.
Decode_Replace(tok) ==
  [i \in DOMAIN tok |-> IF tok[i] = BadByte THEN "\\ufffd" ELSE tok[i]]

Decode(tok) == SelectSeq(tok, LAMBDA b : b # BadByte)

\* str.upper() on the severity tokens (warning|note|error) matches under
\* re.IGNORECASE.
Upper(tok) ==
  CASE tok \in {"warning", "Warning", "WARNING"} -> "WARNING"
    [] tok \in {"note", "Note", "NOTE"}          -> "NOTE"
    [] tok \in {"error", "Error", "ERROR"}       -> "ERROR"
    [] OTHER                                     -> tok

\* --------------------------------------------------------------------------
\* Lines of a log.  k is the kind of text on the line:
\*   "start"  start time = <t>
\*   "end"    end time = <t>
\*   "head"   Poor model convergence at time <t>
\*   "meas"   MAX DQ= <v1> at <n1>  MAX DH= <v2> at <n2>
\*   "dq"     MAX DQ= <v1> at <n1>
\*   "dh"     MAX DH= <v2> at <n2>
\*   "mtime"  Model time <t>
\*   "annot"  *** <sev> <code> *** at label: <lab>
\*   "fatal"  stopped in error
\*   "text"   filler that no pattern matches
\* Every line ends with a line break; len is its length in bytes.
Blank ==
  [k |-> "text", t |-> 0, v1 |-> "", n1 |-> <<>>, v2 |-> "", n2 |-> <<>>,
   sev |-> "", code |-> "", lab |-> <<>>, len |-> 40]

TextLine(n)  == [Blank EXCEPT !.len = n]
StartLine(t) == [Blank EXCEPT !.k = "start", !.t = t,
                              !.len = IF t >= Inf THEN 360 ELSE 40]
EndLine(t)   == [Blank EXCEPT !.k = "end", !.t = t]
HeadLine(t)  == [Blank EXCEPT !.k = "head", !.t = t]
MeasLine(v1, n1, v2, n2) ==
  [Blank EXCEPT !.k = "meas", !.v1 = v1, !.n1 = n1, !.v2 = v2, !.n2 = n2,
                !.len = 80]
DqLine(v1, n1) == [Blank EXCEPT !.k = "dq", !.v1 = v1, !.n1 = n1]
DhLine(v2, n2) == [Blank EXCEPT !.k = "dh", !.v2 = v2, !.n2 = n2]
MtimeLine(t) == [Blank EXCEPT !.k = "mtime", !.t = t]
AnnotLine(sev, code, lab) ==
  [Blank EXCEPT !.k = "annot", !.sev = sev, !.code = code, !.lab = lab]
FatalLine == [Blank EXCEPT !.k = "fatal"]

\* --------------------------------------------------------------------------
\* Log fragments the logs of the model are concatenated from.
N1 == <<"N", "1">>
N2 == <<"N", "2">>
L1 == <<"L", "1">>
LBad == <<"L", BadByte, "7">>

ConvBlock(t, v1, n1, v2, n2) ==
  <<HeadLine(t), TextLine(40), MeasLine(v1, n1, v2, n2)>>
DiagUnit(t, sev, code, lab) == <<MtimeLine(t), AnnotLine(sev, code, lab)>>

Units ==
  { <<StartLine(2)>>, <<StartLine(0)>>, <<StartLine(Inf)>>,
    <<EndLine(1)>>, <<EndLine(9)>>,
    ConvBlock(3, "0.003", N1, "0.012", N2),
    ConvBlock(1, "3e-3", N2, "-0.5", N2),
    ConvBlock(7, "****", N1, "0.012", N2),
    DiagUnit(5, "error", "E1900", L1),
    DiagUnit(8, "ERROR", "E2000", L1),
    DiagUnit(0, "Warning", "W2013", L1),
    DiagUnit(12, "note", "N3002", LBad),
    <<FatalLine>>,
    <<TextLine(5000)>> }

RECURSIVE Flatten(_)
Flatten(us) == IF us = <<>> THEN <<>> ELSE Head(us) \o Flatten(Tail(us))

UnitSeqs(n) == UNION {[1..m -> Units] : m \in 0..n}
Buffers == {Flatten(us) : us \in UnitSeqs(MaxUnits)}

\* The fragments of the logs on which two calls are compared.
RepeatUnits ==
  { <<StartLine(2)>>, <<EndLine(9)>>,
    ConvBlock(3, "0.003", N1, "0.012", N2),
    ConvBlock(7, "****", N1, "0.012", N2),
    DiagUnit(5, "error", "E1900", L1),
    DiagUnit(12, "note", "N3002", LBad),
    <<FatalLine>>,
    <<TextLine(5000)>> }

RepeatBuffers ==
  {Flatten(us) : us \in UNION {[1..m -> RepeatUnits] : m \in 0..MaxRepeatUnits}}

\* Logs of blocks and diagnostic units that lack a part or hold extra lines,
\* and of events whose severity token and code prefix disagree.
ShapeUnits ==
  { <<HeadLine(5), TextLine(40)>>,
    <<HeadLine(6), TextLine(40), DqLine("0.003", N1)>>,
    <<HeadLine(1), TextLine(40), DhLine("-0.5", N1)>>,
    ConvBlock(7, "3e-3", N2, "0.012", N2),
    <<HeadLine(4), TextLine(40), TextLine(40),
      MeasLine("0.003", N1, "0.012", N2)>>,
    <<MtimeLine(5), TextLine(40)>>,
    DiagUnit(8, "error", "W2013", L1),
    DiagUnit(9, "warning", "E1900", L1),
    DiagUnit(2, "Note", "E1001", L1),
    <<FatalLine>>,
    <<StartLine(0)>>,
    <<EndLine(0)>>,
    <<StartLine(0), EndLine(0)>> }

ShapeBuffers ==
  {Flatten(us) : us \in UNION {[1..m -> ShapeUnits] : m \in 0..MaxUnits}}

\* Logs whose markers stand at, across and beyond the edges of the windows.
WindowUnits ==
  { <<TextLine(4986)>>, <<TextLine(1)>>, <<TextLine(5000)>>,
    <<StartLine(12)>>, <<StartLine(2)>>, <<EndLine(9)>>, <<EndLine(1)>>,
    DiagUnit(5, "error", "E1900", L1),
    <<FatalLine>>, <<TextLine(1960)>>, <<TextLine(1990)>>, <<TextLine(2000)>> }

WindowBuffers ==
  {Flatten(us) : us \in UNION {[1..m -> WindowUnits] : m \in 0..MaxUnits}}

\* --------------------------------------------------------------------------
\* Byte windows.
RECURSIVE ByteLen(_)
ByteLen(s) == IF s = <<>> THEN 0 ELSE Head(s).len + ByteLen(Tail(s))

\* A marker line is written 'start time = <numeral>' or 'end time =
\* <numeral>' from its first byte on: MarkerLen bytes stand before the numeral.
MarkerLen == 13

RECURSIVE NumDigits(_)
NumDigits(t) == IF t < 10 THEN 1 ELSE 1 + NumDigits(t \div 10)

\* The number written by the first k digits of the numeral of t.
RECURSIVE LeadingDigits(_, _)
LeadingDigits(t, k) ==
  IF k >= NumDigits(t) THEN t ELSE LeadingDigits(t \div 10, k)

\* The number written by the first k digits of a numeral.  The numeral of Inf
\* is a row of more than 309 nines; 309 of them or more still give inf, fewer
\* give a finite number, written exactly up to five digits and as Inf - 1
\* above that (no log of the model is cut there).
CutNumeral(t, k) ==
  IF t < Inf THEN LeadingDigits(t, k)
  ELSE IF k >= 309 THEN Inf
  ELSE IF k <= 5 THEN 10^k - 1
  ELSE Inf - 1

\* The first c bytes of line l, as RE_START sees them: a 'start time' line
\* cut inside or after its numeral is a 'start time' line with the digits that
\* are left; cut before the numeral it has no digit and matches nothing, as
\* does the head of every other line.
CutLine(l, c) ==
  IF l.k = "start" /\ c > MarkerLen
  THEN [l EXCEPT !.t = CutNumeral(l.t, c - MarkerLen), !.len = c]
  ELSE TextLine(c)

\* zzd_bytes[:w]: the lines that lie wholly in the first w bytes, and the
\* head of the line the cut falls in.
PrefixWindow(s, w) ==
  LET n == CHOOSE n \in 0..Len(s) :
             /\ ByteLen(SubSeq(s, 1, n)) <= w
             /\ \A m \in (n+1)..Len(s) : ByteLen(SubSeq(s, 1, m)) > w
      c == w - ByteLen(SubSeq(s, 1, n))
  IN IF n < Len(s) /\ c > 0
     THEN Append(SubSeq(s, 1, n), CutLine(s[n+1], c))
     ELSE SubSeq(s, 1, n)

\* zzd_bytes[-w:]: the lines that lie wholly in the last w bytes.  The line
\* the cut falls in has lost its first bytes, where its marker stands, and
\* what is left of it matches no pattern.
SuffixWindow(s, w) ==
  LET n == CHOOSE n \in 1..(Len(s)+1) :
             /\ ByteLen(SubSeq(s, n, Len(s))) <= w
             /\ \A m \in 1..(n-1) : ByteLen(SubSeq(s, m, Len(s))) > w
  IN SubSeq(s, n, Len(s))

StartWindow == 5000
EndWindow == 5000
FatalWindow == 2000

\* --------------------------------------------------------------------------
\* The compiled patterns.  A match is the tuple of its groups.

\* Index of the first line of s at or after from whose kind is in kinds,
\* or 0.
FirstIdx(s, from, kinds) ==
  IF \E i \in from..Len(s) : s[i].k \in kinds
  THEN CHOOSE i \in from..Len(s) :
         s[i].k \in kinds /\ \A j \in from..(i-1) : s[j].k \notin kinds
  ELSE 0

\* RE_START.search(w): the first 'start time' line of w; group 1 is its number.
RE_START_search(w) ==
  LET i == FirstIdx(w, 1, {"start"})
  IN IF i = 0 THEN None ELSE Some([g1 |-> w[i].t])

\* RE_END.search(w): the first 'end time' line of w.
RE_END_search(w) ==
  LET i == FirstIdx(w, 1, {"end"})
  IN IF i = 0 THEN None ELSE Some([g1 |-> w[i].t])

\* The kinds of line that hold a MAX DQ token, a MAX DH token.
HasDQ == {"meas", "dq"}
HasDH == {"meas", "dh"}

\* RE_CONV matched from line p on: the leftmost 'Poor model convergence ...
\* time <t>' line i, then (.*?\n.*?\n.*? under DOTALL: at least two line
\* breaks, anything between) the first MAX DQ token on a line after i+1,
\* then (.*?) the first MAX DH token after that MAX DQ token.  None if any
\* part is missing.  first is the line the match starts on, dqat the line of
\* its MAX DQ token and last the line it ends on (that of its MAX DH token).
ConvMatchFrom(s, p) ==
  LET i == FirstIdx(s, p, {"head"})
      j == IF i = 0 THEN 0 ELSE FirstIdx(s, i + 2, HasDQ)
      h == IF j = 0 THEN 0
           ELSE IF s[j].k = "meas" THEN j ELSE FirstIdx(s, j + 1, HasDH)
  IN IF h = 0 THEN None
     ELSE Some([g1 |-> s[i].t, g2 |-> s[j].v1, g3 |-> s[j].n1,
                g4 |-> s[h].v2, g5 |-> s[h].n2,
                first |-> i, dqat |-> j, last |-> h])

\* RE_CONV.finditer(s): the non-overlapping matches, left to right.
RECURSIVE ConvIter(_, _)
ConvIter(s, p) ==
  LET m == ConvMatchFrom(s, p)
  IN IF m = None THEN <<>> ELSE <<m[1]>> \o ConvIter(s, m[1].last + 1)

RE_CONV_finditer(s) == ConvIter(s, 1)

\* RE_WARN matched from line p on: the leftmost 'Model time <t>' line i, then
\* (.*?\n.*? under DOTALL: at least one line break) the first annotation line
\* after line i.  first is the line the match starts on and last the line
\* it ends on (the annotation line).
WarnMatchFrom(s, p) ==
  LET i == FirstIdx(s, p, {"mtime"})
      j == IF i = 0 THEN 0 ELSE FirstIdx(s, i + 1, {"annot"})
  IN IF j = 0 THEN None
     ELSE Some([g1 |-> s[i].t, g2 |-> s[j].sev, g3 |-> s[j].code,
                g4 |-> s[j].lab, first |-> i, last |-> j])

RECURSIVE WarnIter(_, _)
WarnIter(s, p) ==
  LET m == WarnMatchFrom(s, p)
  IN IF m = None THEN <<>> ELSE <<m[1]>> \o WarnIter(s, m[1].last + 1)

RE_WARN_finditer(s) == WarnIter(s, 1)

\* b"stopped in error" in w
FatalMarkerIn(w) == \E i \in 1..Len(w) : w[i].k = "fatal"

\* --------------------------------------------------------------------------
\* State: the locals of the running call of extract_zzd_data (they keep
\* their last value until the next call assigns them), its position pc, the
\* value it returned, and first, the remembered outcome of an earlier call.
\* other is the frame of a second call that runs at the same time as the
\* first: a record of its own locals, its position and its returned value.
\* c_fig, w_fig and status are the outputs update_dashboard builds from the
\* returned value; while it builds them pc runs on from "done" through
\* "plot_warn" and "plot_fail" to "rendered", or to "dash_raised".
VARIABLES pc, zzd_bytes, start_time, end_time, dq_data, dh_data, warn_data,
          last_err_t, last_err_c, is_fatal, result, first, other,
          c_fig, w_fig, status

vars == <<pc, zzd_bytes, start_time, end_time, dq_data, dh_data, warn_data,
          last_err_t, last_err_c, is_fatal, result, first, other,
          c_fig, w_fig, status>>

\* What update_dashboard builds: the convergence figure, the warning figure
\* and the status text.
figs == <<c_fig, w_fig, status>>

\* go.Figure(): no trace, no tolerance line, no vertical line.
EmptyFigure == [traces |-> <<>>, hlines |-> <<>>, vline |-> None]

\* The variables of the first call.
frame1 == <<pc, zzd_bytes, start_time, end_time, dq_data, dh_data, warn_data,
            last_err_t, last_err_c, is_fatal, result>>

IdleFrame ==
  [pc |-> "idle", zzd_bytes |-> <<>>, start_time |-> 0, end_time |-> 0,
   dq_data |-> <<>>, dh_data |-> <<>>, warn_data |-> <<>>,
   last_err_t |-> None, last_err_c |-> None, is_fatal |-> FALSE,
   result |-> None]

Init ==
  /\ pc = "idle"
  /\ zzd_bytes = <<>>
  /\ start_time = 0
  /\ end_time = 0
  /\ dq_data = <<>>
  /\ dh_data = <<>>
  /\ warn_data = <<>>
  /\ last_err_t = None
  /\ last_err_c = None
  /\ is_fatal = FALSE
  /\ result = None
  /\ first = None
  /\ other = IdleFrame
  /\ c_fig = EmptyFigure
  /\ w_fig = EmptyFigure
  /\ status = None

\* --- A. start_time and end_time ---
StartTimeOf(b) ==
  LET start_match == RE_START_search(PrefixWindow(b, StartWindow))
  IN IF start_match # None THEN FloatOfDigits(start_match[1].g1) ELSE 0

EndTimeOf(b) ==
  LET end_match == RE_END_search(SuffixWindow(b, EndWindow))
  IN IF end_match # None THEN FloatOfDigits(end_match[1].g1) ELSE 0

\* Variant: the diagnostic list and the trackers live on between calls.
InitLocals_KeepWarnings ==
  /\ dq_data' = <<>>
  /\ dh_data' = <<>>
  /\ UNCHANGED <<warn_data, last_err_t, last_err_c>>

\* --- B. the lists and the error trackers start empty ---
InitLocals ==
  /\ dq_data' = <<>>
  /\ dh_data' = <<>>
  /\ warn_data' = <<>>
  /\ last_err_t' = None
  /\ last_err_c' = None

\* A call on log b: the code up to the first loop.
Call(b) ==
  /\ pc \in {"idle", "done", "raised"}
  /\ zzd_bytes' = b
  /\ start_time' = StartTimeOf(b)
  /\ end_time' = EndTimeOf(b)
  /\ InitLocals
  /\ is_fatal' = FALSE
  /\ result' = None
  /\ pc' = "conv"
  /\ UNCHANGED <<first, other, figs>>

\* --- B.1 the loop over RE_CONV.finditer ---
\* Each match appends one DQ entry and one DH entry; float() of group 2 or
\* group 4 raises ValueError on a token that is no float literal, and the
\* call ends there.
DqEntry(m, t, v) == [time |-> t, value |-> v, node |-> Decode(m.g3)]

\* Variant: the DH entry takes the node of the MAX DQ token.
DhEntry_DqNode(m, t, v) == [time |-> t, value |-> v, node |-> Decode(m.g3)]

DhEntry(m, t, v) == [time |-> t, value |-> v, node |-> Decode(m.g5)]

RECURSIVE ConvLoop(_, _, _)
ConvLoop(ms, dq, dh) ==
  IF ms = <<>> THEN [raised |-> FALSE, dq |-> dq, dh |-> dh]
  ELSE
    LET m  == Head(ms)
        t  == FloatOfDigits(m.g1)
        v2 == FloatOfToken(m.g2)
        v4 == FloatOfToken(m.g4)
    IN IF v2 = None THEN [raised |-> TRUE, dq |-> dq, dh |-> dh]
       ELSE
         LET dq2 == Append(dq, DqEntry(m, t, v2[1]))
         IN IF v4 = None THEN [raised |-> TRUE, dq |-> dq2, dh |-> dh]
            ELSE ConvLoop(Tail(ms), dq2, Append(dh, DhEntry(m, t, v4[1])))

ExtractConv ==
  /\ pc = "conv"
  /\ LET r == ConvLoop(RE_CONV_finditer(zzd_bytes), dq_data, dh_data)
     IN /\ dq_data' = r.dq
        /\ dh_data' = r.dh
        /\ pc' = IF r.raised THEN "raised" ELSE "warn"
  /\ UNCHANGED <<zzd_bytes, start_time, end_time, warn_data, last_err_t,
                 last_err_c, is_fatal, result, first, other, figs>>

\* --- B.2 the loop over RE_WARN.finditer ---
\* The severity and the code are ASCII by their patterns, (warning|note|error)
\* and (\w+) on bytes, so decoding leaves them as they are; the label is (\S+).
\* Variant: an event is an error when its code is one of the E codes.
TrackError_ByCode(etype, t, ecode, et, ec) ==
  IF ecode \in {"E1900", "E2000", "E1001"}
  THEN <<Some(t), Some(ecode)>> ELSE <<et, ec>>

\* 'if etype == ERROR': the trackers after one event, as
\* <<last_err_t, last_err_c>>.
\* Variant: the first ERROR event is kept.
TrackError_FirstWins(etype, t, ecode, et, ec) ==
  IF etype = "ERROR" /\ et = None THEN <<Some(t), Some(ecode)>> ELSE <<et, ec>>

TrackError(etype, t, ecode, et, ec) ==
  IF etype = "ERROR" THEN <<Some(t), Some(ecode)>> ELSE <<et, ec>>

RECURSIVE WarnLoop(_, _, _, _)
WarnLoop(ms, warn, et, ec) ==
  IF ms = <<>> THEN [warn |-> warn, last_err_t |-> et, last_err_c |-> ec]
  ELSE
    LET m     == Head(ms)
        t     == FloatOfDigits(m.g1)
        etype == Upper(m.g2)
        ecode == m.g3
        label == Decode(m.g4)
        row   == [time |-> t, type |-> etype, code |-> ecode, label |-> label]
        e     == TrackError(etype, t, ecode, et, ec)
    IN WarnLoop(Tail(ms), Append(warn, row), e[1], e[2])

ExtractWarnings ==
  /\ pc = "warn"
  /\ LET r == WarnLoop(RE_WARN_finditer(zzd_bytes), warn_data,
                       last_err_t, last_err_c)
     IN /\ warn_data' = r.warn
        /\ last_err_t' = r.last_err_t
        /\ last_err_c' = r.last_err_c
  /\ pc' = "fatal"
  /\ UNCHANGED <<zzd_bytes, start_time, end_time, dq_data, dh_data,
                 is_fatal, result, first, other, figs>>

\* --- C. the fatal marker in the last 2000 bytes ---
\* Variant: the marker is looked for in the whole log.
IsFatalOf_WholeLog(b) == FatalMarkerIn(b)

IsFatalOf(b) == FatalMarkerIn(SuffixWindow(b, FatalWindow))

FatalCheck ==
  /\ pc = "fatal"
  /\ is_fatal' = IsFatalOf(zzd_bytes)
  /\ pc' = "infer"
  /\ UNCHANGED <<zzd_bytes, start_time, end_time, dq_data, dh_data,
                 warn_data, last_err_t, last_err_c, result, first, other, figs>>

\* --- D. time inference ---
SeqMin(s) == CHOOSE x \in {s[i] : i \in DOMAIN s} :
               \A y \in {s[i] : i \in DOMAIN s} : x <= y
SeqMax(s) == CHOOSE x \in {s[i] : i \in DOMAIN s} :
               \A y \in {s[i] : i \in DOMAIN s} : x >= y

\* Variant: the pool holds the sample times only.
AllTimestamps_SamplesOnly(dq, warn) ==
  IF dq # <<>> THEN <<dq[1].time, dq[Len(dq)].time>> ELSE <<>>

\* all_timestamps: first and last time of dq_data, then of warn_data.
AllTimestamps(dq, warn) ==
  (IF dq # <<>> THEN <<dq[1].time, dq[Len(dq)].time>> ELSE <<>>)
  \o (IF warn # <<>> THEN <<warn[1].time, warn[Len(warn)].time>> ELSE <<>>)

\* Variant: the inference fills in the start only.
InferBounds_StartOnly(st, en, dq, warn) ==
  IF st = 0 \/ en = 0
  THEN LET all_timestamps == AllTimestamps(dq, warn)
       IN IF all_timestamps # <<>>
          THEN << IF st = 0 THEN SeqMin(all_timestamps) ELSE st, en >>
          ELSE <<st, en>>
  ELSE <<st, en>>

\* Variant: the inference runs whatever the markers gave.
InferBounds_Always(st, en, dq, warn) ==
  LET all_timestamps == AllTimestamps(dq, warn)
  IN IF all_timestamps # <<>>
     THEN <<SeqMin(all_timestamps), SeqMax(all_timestamps)>>
     ELSE <<st, en>>

\* Variant: the inference fills in the end only.
InferBounds_EndOnly(st, en, dq, warn) ==
  IF st = 0 \/ en = 0
  THEN LET all_timestamps == AllTimestamps(dq, warn)
       IN IF all_timestamps # <<>>
          THEN << st, IF en = 0 THEN SeqMax(all_timestamps) ELSE en >>
          ELSE <<st, en>>
  ELSE <<st, en>>

\* The bounds after the inference block, as <<start_time, end_time>>.
InferBounds(st, en, dq, warn) ==
  IF st = 0 \/ en = 0
  THEN LET all_timestamps == AllTimestamps(dq, warn)
       IN IF all_timestamps # <<>>
          THEN << IF st = 0 THEN SeqMin(all_timestamps) ELSE st,
                  IF en = 0 THEN SeqMax(all_timestamps) ELSE en >>
          ELSE <<st, en>>
  ELSE <<st, en>>

Infer ==
  /\ pc = "infer"
  /\ LET b == InferBounds(start_time, end_time, dq_data, warn_data)
     IN start_time' = b[1] /\ end_time' = b[2]
  /\ pc' = "force"
  /\ UNCHANGED <<zzd_bytes, dq_data, dh_data, warn_data, last_err_t,
                 last_err_c, is_fatal, result, first, other, figs>>

\* Variant: the test is start_time > end_time.
ForceBounds_Strict(st, en) ==
  IF st > en
  THEN IF st = 0 THEN <<st, 1>> ELSE <<st, FAdd(st, 1)>>
  ELSE <<st, en>>

\* Variant: the branch for start_time == 0.0 is missing.
ForceBounds_NoZeroCase(st, en) ==
  IF st >= en /\ st # 0 THEN <<st, FAdd(st, 1)>> ELSE <<st, en>>

\* Variant: bounds in the wrong order are swapped.
ForceBounds_Swap(st, en) ==
  IF st > en THEN <<en, st>>
  ELSE IF st = en THEN (IF st = 0 THEN <<st, 1>> ELSE <<st, FAdd(st, 1)>>)
  ELSE <<st, en>>

\* The bounds after 'if start_time >= end_time'.
ForceBounds(st, en) ==
  IF st >= en
  THEN IF st = 0 THEN <<st, 1>> ELSE <<st, FAdd(st, 1)>>
  ELSE <<st, en>>

Force ==
  /\ pc = "force"
  /\ LET b == ForceBounds(start_time, end_time)
     IN start_time' = b[1] /\ end_time' = b[2]
  /\ pc' = "frames"
  /\ UNCHANGED <<zzd_bytes, dq_data, dh_data, warn_data, last_err_t,
                 last_err_c, is_fatal, result, first, other, figs>>

\* --- E. the data frames and the returned dict ---
\* Variant: the missing descriptions are not filled in.
Note_NoFill(code) ==
  IF code \in DOMAIN WARNING_DESCRIPTIONS THEN WARNING_DESCRIPTIONS[code] ELSE ""

\* df_w['code'].map(WARNING_DESCRIPTIONS).fillna("Unknown Warning")
Note(code) ==
  IF code \in DOMAIN WARNING_DESCRIPTIONS
  THEN WARNING_DESCRIPTIONS[code]
  ELSE "Unknown Warning"

\* Variant: the diagnostic rows are put in order of time.
WithNotes_SortedByTime(warn) ==
  LET n == Len(warn)
      p == CHOOSE p \in [1..n -> 1..n] :
             /\ \A i, j \in 1..n : i # j => p[i] # p[j]
             /\ \A i \in 1..(n-1) : warn[p[i]].time <= warn[p[i+1]].time
  IN [i \in 1..n |->
        [time |-> warn[p[i]].time, type |-> warn[p[i]].type,
         code |-> warn[p[i]].code, label |-> warn[p[i]].label,
         note |-> Note(warn[p[i]].code)]]

WithNotes(warn) ==
  [i \in DOMAIN warn |->
     [time |-> warn[i].time, type |-> warn[i].type, code |-> warn[i].code,
      label |-> warn[i].label, note |-> Note(warn[i].code)]]

\* Variant: the trackers are returned whether or not the marker was found.
ReturnValue_NoFatalTest(dq, dh, warn, st, en, et, ec, fatal) ==
  [dq |-> dq, dh |-> dh, warnings |-> WithNotes(warn),
   start |-> st, end |-> en, fail_t |-> et, fail_c |-> ec]

ReturnValue(dq, dh, warn, st, en, et, ec, fatal) ==
  [dq |-> dq, dh |-> dh, warnings |-> WithNotes(warn),
   start |-> st, end |-> en,
   fail_t |-> IF fatal THEN et ELSE None,
   fail_c |-> IF fatal THEN ec ELSE None]

Return ==
  /\ pc = "frames"
  /\ result' = Some(ReturnValue(dq_data, dh_data, warn_data, start_time,
                                end_time, last_err_t, last_err_c, is_fatal))
  /\ pc' = "done"
  /\ UNCHANGED <<zzd_bytes, start_time, end_time, dq_data, dh_data,
                 warn_data, last_err_t, last_err_c, is_fatal, first, other, figs>>

Step == ExtractConv \/ ExtractWarnings \/ FatalCheck \/ Infer \/ Force \/ Return

\* One call on any log of the model.
FirstCall == pc = "idle" /\ \E b \in Buffers : Call(b)

Next == FirstCall \/ Step

Spec == Init /\ [][Next]_vars

\* --------------------------------------------------------------------------
\* Two calls compared: the caller keeps the outcome of one finished call, and
\* any later call on the same log is held against it.
Outcome == <<pc, result>>

Remember ==
  /\ pc \in {"done", "raised"}
  /\ first = None
  /\ first' = Some([buf |-> zzd_bytes, out |-> Outcome])
  /\ pc' = "idle"
  /\ UNCHANGED <<other, figs>>
  /\ UNCHANGED <<zzd_bytes, start_time, end_time, dq_data, dh_data,
                 warn_data, last_err_t, last_err_c, is_fatal, result>>

\* One call on any log of irregular blocks and units.
ShapeCall == pc = "idle" /\ \E b \in ShapeBuffers : Call(b)

NextShapes == ShapeCall \/ Step

SpecShapes == Init /\ [][NextShapes]_vars

\* One call on a log with markers near the edges of the windows.
WindowCall == pc = "idle" /\ \E b \in WindowBuffers : Call(b)

NextWindow == WindowCall \/ Step

SpecWindow == Init /\ [][NextWindow]_vars

\* Call after call, each on any of the shorter logs.
AnyCall == \E b \in RepeatBuffers : Call(b)

NextRepeat == AnyCall \/ Step \/ Remember

SpecRepeat == Init /\ [][NextRepeat]_vars


\* --------------------------------------------------------------------------
\* Two calls at the same time, on logs of their own.  The second call runs the
\* same code on its own frame, other; the steps of the two interleave freely.
OtherCall(b) ==
  /\ other.pc = "idle"
  /\ other' = [pc |-> "conv", zzd_bytes |-> b,
               start_time |-> StartTimeOf(b), end_time |-> EndTimeOf(b),
               dq_data |-> <<>>, dh_data |-> <<>>, warn_data |-> <<>>,
               last_err_t |-> None, last_err_c |-> None,
               is_fatal |-> FALSE, result |-> None]
  /\ UNCHANGED <<frame1, first, figs>>

OtherExtractConv ==
  /\ other.pc = "conv"
  /\ LET r == ConvLoop(RE_CONV_finditer(other.zzd_bytes),
                       other.dq_data, other.dh_data)
     IN other' = [other EXCEPT !.dq_data = r.dq, !.dh_data = r.dh,
                               !.pc = IF r.raised THEN "raised" ELSE "warn"]
  /\ UNCHANGED <<frame1, first, figs>>

\* Variant: the error trackers are shared by the two calls.
OtherExtractWarnings_SharedTrackers ==
  /\ other.pc = "warn"
  /\ LET r == WarnLoop(RE_WARN_finditer(other.zzd_bytes), other.warn_data,
                       last_err_t, last_err_c)
     IN other' = [other EXCEPT !.warn_data = r.warn,
                               !.last_err_t = r.last_err_t,
                               !.last_err_c = r.last_err_c,
                               !.pc = "fatal"]
  /\ UNCHANGED <<frame1, first, figs>>

OtherExtractWarnings ==
  /\ other.pc = "warn"
  /\ LET r == WarnLoop(RE_WARN_finditer(other.zzd_bytes), other.warn_data,
                       other.last_err_t, other.last_err_c)
     IN other' = [other EXCEPT !.warn_data = r.warn,
                               !.last_err_t = r.last_err_t,
                               !.last_err_c = r.last_err_c,
                               !.pc = "fatal"]
  /\ UNCHANGED <<frame1, first, figs>>

OtherFatalCheck ==
  /\ other.pc = "fatal"
  /\ other' = [other EXCEPT !.is_fatal = IsFatalOf(other.zzd_bytes),
                            !.pc = "infer"]
  /\ UNCHANGED <<frame1, first, figs>>

OtherInfer ==
  /\ other.pc = "infer"
  /\ LET b == InferBounds(other.start_time, other.end_time,
                          other.dq_data, other.warn_data)
     IN other' = [other EXCEPT !.start_time = b[1], !.end_time = b[2],
                               !.pc = "force"]
  /\ UNCHANGED <<frame1, first, figs>>

OtherForce ==
  /\ other.pc = "force"
  /\ LET b == ForceBounds(other.start_time, other.end_time)
     IN other' = [other EXCEPT !.start_time = b[1], !.end_time = b[2],
                               !.pc = "frames"]
  /\ UNCHANGED <<frame1, first, figs>>

OtherReturn ==
  /\ other.pc = "frames"
  /\ other' = [other EXCEPT
       !.result = Some(ReturnValue(other.dq_data, other.dh_data,
                                   other.warn_data, other.start_time,
                                   other.end_time, other.last_err_t,
                                   other.last_err_c, other.is_fatal)),
       !.pc = "done"]
  /\ UNCHANGED <<frame1, first, figs>>

OtherStep ==
  \/ OtherExtractConv \/ OtherExtractWarnings \/ OtherFatalCheck
  \/ OtherInfer \/ OtherForce \/ OtherReturn

ConcCall == pc = "idle" /\ \E b \in RepeatBuffers : Call(b)

OtherCalls == \E b \in RepeatBuffers : OtherCall(b)

NextConc == ConcCall \/ Step \/ OtherCalls \/ OtherStep

SpecConc == Init /\ [][NextConc]_vars

\* --------------------------------------------------------------------------
\* update_dashboard: after data = extract_zzd_data(decoded_bytes) has
\* returned, the callback builds the two figures and the status text from
\* data.  data is the dict held in result; data['warnings'] is the frame
\* inside it, not a copy.

\* Logs for the dashboard: samples of two nodes with small and large values,
\* events with a known and an unknown code, an ERROR at time 0.
DashUnits ==
  { ConvBlock(3, "0.003", N1, "0.012", N2),
    ConvBlock(1, "3e-3", N2, "-0.5", N2),
    ConvBlock(4, "0.012", N1, "0.003", N1),
    DiagUnit(5, "error", "E1900", L1),
    DiagUnit(0, "ERROR", "E2000", L1),
    DiagUnit(8, "Warning", "W2013", L1),
    <<FatalLine>> }

DashBuffers ==
  {Flatten(us) : us \in UNION {[1..m -> DashUnits] : m \in 0..MaxUnits}}

\* The values of the inputs qtol and htol, in thousandths.
Tolerances == {1, 5, 1000}

Abs(v) == IF v < 0 THEN 0 - v ELSE v

\* df[df['value'].abs() >= val]
Violations(df, val) == SelectSeq(df, LAMBDA r : Abs(r.value) >= val)

NodesOf(df) == {df[i].node : i \in DOMAIN df}

\* value_counts() of the node column: the number of rows of each node.
CountOf(df, node) == Cardinality({i \in DOMAIN df : df[i].node = node})

\* total_counts: violations of a node in DQ and DH together.
TotalCount(dq, dh, qtol, htol, node) ==
  CountOf(Violations(dq, qtol), node) + CountOf(Violations(dh, htol), node)

\* sorted_nodes: the nodes of the two frames by falling total count; the
\* order of nodes with equal counts is not fixed by sort_values.
SortedNodes(dq, dh, qtol, htol) ==
  LET nodes == NodesOf(dq) \cup NodesOf(dh)
      n == Cardinality(nodes)
  IN {p \in [1..n -> nodes] :
        /\ \A i, j \in 1..n : i # j => p[i] # p[j]
        /\ \A i \in 1..(n-1) :
             TotalCount(dq, dh, qtol, htol, p[i])
               >= TotalCount(dq, dh, qtol, htol, p[i+1])}

\* The inner loop 'for i, node in enumerate(sorted_nodes)' on one row of the
\* figure: one trace for every node that has rows in df_filtered, shown in the
\* legend if the node is not in seen_nodes yet.
RECURSIVE RowTraces(_, _, _, _)
RowTraces(df_filtered, nodes, row, seen_nodes) ==
  IF nodes = <<>> THEN [traces |-> <<>>, seen_nodes |-> seen_nodes]
  ELSE
    LET node == Head(nodes)
        nd == SelectSeq(df_filtered, LAMBDA r : r.node = node)
    IN IF nd = <<>>
       THEN RowTraces(df_filtered, Tail(nodes), row, seen_nodes)
       ELSE
         LET rest == RowTraces(df_filtered, Tail(nodes), row,
                               seen_nodes \cup {node})
         IN [traces |-> << [row |-> row, legendgroup |-> node,
                            showlegend |-> node \notin seen_nodes,
                            x |-> [i \in DOMAIN nd |-> nd[i].time],
                            y |-> [i \in DOMAIN nd |-> nd[i].value]] >>
                        \o rest.traces,
             seen_nodes |-> rest.seen_nodes]

\* Variant: seen_nodes starts empty on each row.
ConvTraces_SeenPerRow(dq, dh, qtol, htol, sorted_nodes) ==
  LET r1 == RowTraces(Violations(dq, qtol), sorted_nodes, 1, {})
      r2 == RowTraces(Violations(dh, htol), sorted_nodes, 2, {})
  IN r1.traces \o r2.traces

\* The loop 'for df_key, row, val in [('dq', 1, qtol), ('dh', 2, htol)]'.
ConvTraces(dq, dh, qtol, htol, sorted_nodes) ==
  LET r1 == RowTraces(Violations(dq, qtol), sorted_nodes, 1, {})
      r2 == RowTraces(Violations(dh, htol), sorted_nodes, 2, r1.seen_nodes)
  IN r1.traces \o r2.traces

\* 'if not contents': nothing was uploaded, two empty figures are returned.
NoContents ==
  /\ pc = "idle"
  /\ pc' = "rendered"
  /\ c_fig' = EmptyFigure
  /\ w_fig' = EmptyFigure
  /\ status' = Some([sim |-> None, failed_at |-> None])
  /\ UNCHANGED <<zzd_bytes, start_time, end_time, dq_data, dh_data,
                 warn_data, last_err_t, last_err_c, is_fatal, result,
                 first, other>>

\* 1. Convergence plot.  A frame built from an empty list has no column, and
\* data['dq']['value'] raises KeyError.
PlotConvergence ==
  /\ pc = "done"
  /\ \E qtol, htol \in Tolerances :
       IF result[1].dq = <<>>
       THEN /\ pc' = "dash_raised"
            /\ UNCHANGED c_fig
       ELSE /\ \E sorted_nodes \in SortedNodes(result[1].dq, result[1].dh,
                                              qtol, htol) :
                 c_fig' = [traces |-> ConvTraces(result[1].dq, result[1].dh,
                                                 qtol, htol, sorted_nodes),
                           hlines |-> <<qtol, htol>>,
                           vline |-> None]
            /\ pc' = "plot_warn"
  /\ UNCHANGED <<zzd_bytes, start_time, end_time, dq_data, dh_data,
                 warn_data, last_err_t, last_err_c, is_fatal, result,
                 first, other, w_fig, status>>

\* WARNING_DESCRIPTIONS.get(x, "N/A")
NoteOrNA(code) ==
  IF code \in DOMAIN WARNING_DESCRIPTIONS
  THEN WARNING_DESCRIPTIONS[code]
  ELSE "N/A"

\* df_w['note'] = df_w['code'].map(lambda x: WARNING_DESCRIPTIONS.get(x, "N/A"))
RewriteNotes(df_w) ==
  [i \in DOMAIN df_w |-> [df_w[i] EXCEPT !.note = NoteOrNA(df_w[i].code)]]

\* The heat map (one row per code, with its note) and the bar chart (one bar
\* per code, type and note, with the number of rows).
WarningTraces(df_w) ==
  LET unique_codes == {df_w[i].code : i \in DOMAIN df_w}
      groups == {<<df_w[i].code, df_w[i].type, df_w[i].note>> :
                   i \in DOMAIN df_w}
  IN << [kind |-> "heatmap",
         notes |-> [c \in unique_codes |-> NoteOrNA(c)]],
        [kind |-> "bar",
         count |-> [g \in groups |->
                      Cardinality({i \in DOMAIN df_w :
                        <<df_w[i].code, df_w[i].type, df_w[i].note>> = g})]] >>

\* 2. Warning plot.  df_w is data['warnings'] itself, so the assignment to
\* df_w['note'] writes into the returned result.
PlotWarnings ==
  /\ pc = "plot_warn"
  /\ IF result[1].warnings = <<>>
     THEN UNCHANGED <<result, w_fig>>
     ELSE LET df_w == RewriteNotes(result[1].warnings)
          IN /\ result' = Some([result[1] EXCEPT !.warnings = df_w])
             /\ w_fig' = [w_fig EXCEPT !.traces = WarningTraces(df_w)]
  /\ pc' = "plot_fail"
  /\ UNCHANGED <<zzd_bytes, start_time, end_time, dq_data, dh_data,
                 warn_data, last_err_t, last_err_c, is_fatal,
                 first, other, c_fig, status>>

\* The truth value of data['fail_t'] in 'if data['fail_t']:': None is false,
\* and so is the float 0.0.
Truthy(x) == x # None /\ x[1] # 0

\* 3. Fatal error line and status text.
PlotFailure ==
  /\ pc = "plot_fail"
  /\ LET data == result[1]
         line == IF Truthy(data.fail_t)
                 THEN Some([x |-> data.fail_t[1], text |-> data.fail_c])
                 ELSE None
     IN /\ c_fig' = [c_fig EXCEPT !.vline = line]
        /\ w_fig' = [w_fig EXCEPT !.vline = line]
        /\ status' = Some([sim |-> Some(<<data.start, data.end>>),
                           failed_at |-> IF Truthy(data.fail_t)
                                         THEN data.fail_t ELSE None])
  /\ pc' = "rendered"
  /\ UNCHANGED <<zzd_bytes, start_time, end_time, dq_data, dh_data,
                 warn_data, last_err_t, last_err_c, is_fatal, result,
                 first, other>>

\* One run of the callback on an uploaded log.
DashCall == pc = "idle" /\ \E b \in DashBuffers : Call(b)

Plot == PlotConvergence \/ PlotWarnings \/ PlotFailure

NextDash == NoContents \/ DashCall \/ Step \/ Plot

SpecDash == Init /\ [][NextDash]_vars

\* ==========================================================================
\* Properties.
Done == pc = "done"
Res == result[1]
StartFound == RE_START_search(PrefixWindow(zzd_bytes, StartWindow)) # None
EndFound == RE_END_search(SuffixWindow(zzd_bytes, EndWindow)) # None
NoMarker == ~StartFound /\ ~EndFound
SetMin(S) == CHOOSE x \in S : \A y \in S : x <= y
SetMax(S) == CHOOSE x \in S : \A y \in S : x >= y
Times(rows) == [i \in DOMAIN rows |-> rows[i].time]

\* C1: extract_zzd_data is total: whatever the log, and whatever text follows
\* 'MAX DQ=' or 'MAX DH=' in a matched block, the call returns and never ends
\* in an error.
C1_NeverRaises == pc # "raised"

\* C2: in every returned result start < end holds strictly, whichever
\* markers were found and whatever the record times are.
C2_StartBeforeEnd == Done => Res.start < Res.end

\* The candidate pool, read off the returned records.
C3_Pool ==
  (IF Res.dq # <<>>
   THEN {Res.dq[1].time, Res.dq[Len(Res.dq)].time} ELSE {})
  \cup (IF Res.warnings # <<>>
        THEN {Res.warnings[1].time, Res.warnings[Len(Res.warnings)].time}
        ELSE {})

\* C3: with no time marker found and at least one record, the returned start
\* is the minimum and the returned end the maximum of the pool {first and
\* last convergence time, first and last diagnostic time}, provided that
\* minimum is strictly below that maximum.
C3_InferredFromPool ==
  (Done /\ NoMarker /\ C3_Pool # {} /\ SetMin(C3_Pool) < SetMax(C3_Pool))
    => (Res.start = SetMin(C3_Pool) /\ Res.end = SetMax(C3_Pool))

\* Three diagnostic events, no marker: the bounds are the least and the
\* greatest of their times.
C3_Witness ==
  /\ Done /\ NoMarker
  /\ Res.dq = <<>>
  /\ Times(Res.warnings) = <<5, 8, 12>>
  /\ Res.start = 5 /\ Res.end = 12

\* C4: after inference, if start >= end then end becomes start + 1.0 when
\* start is not 0.0 and 1.0 when start is 0.0, and start stays as it was; in
\* particular a log with no markers whose only record is one diagnostic
\* event at a time t other than 0 yields the bounds (t, t + 1.0).
C4_ForceOrdering ==
  /\ [][ (pc = "force" /\ pc' = "frames" /\ start_time >= end_time)
           => /\ start_time' = start_time
              /\ end_time' = IF start_time = 0 THEN 1
                             ELSE FAdd(start_time, 1) ]_vars
  /\ [](  (/\ Done /\ NoMarker
           /\ Res.dq = <<>>
           /\ Len(Res.warnings) = 1
           /\ Res.warnings[1].time # 0)
          => (/\ Res.start = Res.warnings[1].time
              /\ Res.end = FAdd(Res.warnings[1].time, 1)) )

\* One diagnostic event at time 5, no marker: the bounds are (5, 6).
C4_Witness ==
  /\ Done /\ NoMarker
  /\ Res.dq = <<>>
  /\ Times(Res.warnings) = <<5>>
  /\ Res.start = 5 /\ Res.end = 6

\* No marker is found and neither record pattern matches.
NothingMatches ==
  /\ NoMarker
  /\ RE_CONV_finditer(zzd_bytes) = <<>>
  /\ RE_WARN_finditer(zzd_bytes) = <<>>

\* C5: when no time marker is found and no convergence block and no
\* diagnostic line matches (the empty log included), the result has
\* start = 0.0, end = 1.0, both record sequences empty and no fatal status.
C5_EmptyDefault ==
  (Done /\ NothingMatches)
    => /\ Res.start = 0 /\ Res.end = 1
       /\ Res.dq = <<>> /\ Res.dh = <<>> /\ Res.warnings = <<>>
       /\ Res.fail_t = None /\ Res.fail_c = None

\* A log that holds the fatal marker and nothing else the patterns match.
C5_Witness ==
  /\ Done /\ NothingMatches
  /\ zzd_bytes # <<>>
  /\ is_fatal
  /\ Res.start = 0 /\ Res.end = 1 /\ Res.fail_t = None

\* C6: each matched convergence block yields exactly one sample: one DQ
\* entry and one DH entry with the same time, the DQ value and node from the
\* block's MAX DQ token and the DH value and node from its MAX DH token; a
\* log of one block (time 3, DQ 0.003 at N1, DH 0.012 at N2) gives that one
\* sample and no other.
C6_OneSamplePerBlock ==
  Done =>
    LET ms == RE_CONV_finditer(zzd_bytes)
    IN /\ Len(Res.dq) = Len(ms)
       /\ Len(Res.dh) = Len(ms)
       /\ \A i \in DOMAIN ms :
            /\ Res.dq[i].time = FloatOfDigits(ms[i].g1)
            /\ Res.dh[i].time = Res.dq[i].time
            /\ Some(Res.dq[i].value) = FloatOfToken(ms[i].g2)
            /\ Res.dq[i].node = Decode(ms[i].g3)
            /\ Some(Res.dh[i].value) = FloatOfToken(ms[i].g4)
            /\ Res.dh[i].node = Decode(ms[i].g5)
       /\ (zzd_bytes = ConvBlock(3, "0.003", N1, "0.012", N2))
            => /\ Res.dq = <<[time |-> 3, value |-> 3, node |-> N1]>>
               /\ Res.dh = <<[time |-> 3, value |-> 12, node |-> N2]>>

\* Two blocks in one log, the second with the earlier time: two samples.
C6_Witness ==
  /\ Done
  /\ Len(RE_CONV_finditer(zzd_bytes)) = 2
  /\ Res.dq = <<[time |-> 3, value |-> 3, node |-> N1],
                [time |-> 1, value |-> 3, node |-> N2]>>
  /\ Res.dh = <<[time |-> 3, value |-> 12, node |-> N2],
                [time |-> 1, value |-> 0 - 500, node |-> N2]>>

\* The rows of the returned diagnostics whose severity is ERROR.
ErrorRows == {i \in DOMAIN Res.warnings : Res.warnings[i].type = "ERROR"}

\* C7: with the fatal marker in the suffix window and one or more ERROR
\* events, the fatal time and code are those of the last ERROR event in
\* order of appearance, whatever follows it.
C7_LastErrorWins ==
  (Done /\ IsFatalOf(zzd_bytes) /\ ErrorRows # {})
    => /\ Res.fail_t = Some(Res.warnings[SetMax(ErrorRows)].time)
       /\ Res.fail_c = Some(Res.warnings[SetMax(ErrorRows)].code)

\* ERROR events at 5 (E1900) and 8 (E2000), then the marker: fatal at 8.
C7_Witness ==
  /\ Done /\ IsFatalOf(zzd_bytes)
  /\ ErrorRows = {1, 2}
  /\ Res.warnings[1].code = "E1900" /\ Res.warnings[2].code = "E2000"
  /\ Res.fail_t = Some(8) /\ Res.fail_c = Some("E2000")

\* C8: the fatal status is present only if the marker was found and an
\* ERROR event was extracted: without the marker the fatal time and code are
\* both absent however many ERROR events there are, and with the marker but
\* no ERROR event they are both absent.
C8_FatalNeedsMarkerAndError ==
  Done =>
    /\ (Res.fail_t # None \/ Res.fail_c # None)
         => (IsFatalOf(zzd_bytes) /\ ErrorRows # {})
    /\ ~IsFatalOf(zzd_bytes) => (Res.fail_t = None /\ Res.fail_c = None)
    /\ (IsFatalOf(zzd_bytes) /\ ErrorRows = {})
         => (Res.fail_t = None /\ Res.fail_c = None)

\* Two ERROR events and no marker: no fatal status.
C8_Witness ==
  /\ Done /\ ~IsFatalOf(zzd_bytes)
  /\ Cardinality(ErrorRows) = 2
  /\ Res.fail_t = None /\ Res.fail_c = None

\* The text the dict literal gives for a code.
TextOf(code) ==
  TableRows[CHOOSE i \in DOMAIN TableRows : TableRows[i][1] = code][2]

\* C9: every diagnostic event of a result has a non-empty description: the
\* table's text when its code is a key of WARNING_DESCRIPTIONS, otherwise
\* the fallback "Unknown Warning"; no text of the table is empty.
C9_DescriptionNonEmpty ==
  /\ pc = "idle" => \A i \in DOMAIN TableRows : TableRows[i][2] # ""
  /\ Done =>
       \A i \in DOMAIN Res.warnings :
         LET e == Res.warnings[i]
         IN /\ e.note # ""
            /\ e.note = IF \E j \in DOMAIN TableRows : TableRows[j][1] = e.code
                        THEN TextOf(e.code) ELSE "Unknown Warning"

\* A known code and an unknown code in one result.
C9_Witness ==
  /\ Done
  /\ \E i \in DOMAIN Res.warnings :
       Res.warnings[i].code = "E2000" /\ Res.warnings[i].note = "Unknown Warning"
  /\ \E i \in DOMAIN Res.warnings :
       /\ Res.warnings[i].code = "E1900"
       /\ Res.warnings[i].note = "Cannot allocate memory, status = n"

\* C10: extract_zzd_data is deterministic: two calls on the same log, with
\* any other calls between them, end the same way and return equal results.
C10_SameLogSameOutcome ==
  (pc \in {"done", "raised"} /\ first # None /\ first[1].buf = zzd_bytes)
    => Outcome = first[1].out

\* A later call on the log of the remembered call has returned a result
\* that holds diagnostic events.
C10_Witness ==
  /\ Done /\ first # None
  /\ first[1].buf = zzd_bytes
  /\ Res.warnings # <<>>
  /\ Outcome = first[1].out

\* C11: the severity of an event is the severity token of its line, compared
\* without regard to case, never the letter its code starts with: an 'error'
\* event is ERROR and becomes the fatal candidate whatever its code, and a
\* 'warning' or 'note' event is never ERROR and never the fatal candidate.
C11_SeverityFromToken ==
  Done =>
    LET ms == RE_WARN_finditer(zzd_bytes)
        errs == {i \in DOMAIN ms : ms[i].g2 \in {"error", "Error", "ERROR"}}
    IN /\ Len(Res.warnings) = Len(ms)
       /\ \A i \in DOMAIN ms :
            /\ i \in errs => Res.warnings[i].type = "ERROR"
            /\ ms[i].g2 \in {"warning", "Warning", "WARNING"}
                 => Res.warnings[i].type = "WARNING"
            /\ ms[i].g2 \in {"note", "Note", "NOTE"}
                 => Res.warnings[i].type = "NOTE"
       /\ (is_fatal /\ errs # {})
            => /\ Res.fail_t = Some(FloatOfDigits(ms[SetMax(errs)].g1))
               /\ Res.fail_c = Some(ms[SetMax(errs)].g3)
       /\ (is_fatal /\ errs = {}) => Res.fail_c = None

\* An 'error' event with code W2013, then a 'warning' event with code E1900,
\* then the marker: the fatal code is W2013.
C11_Witness ==
  /\ Done /\ is_fatal
  /\ Len(Res.warnings) = 2
  /\ Res.warnings[1].type = "ERROR" /\ Res.warnings[1].code = "W2013"
  /\ Res.warnings[2].type = "WARNING" /\ Res.warnings[2].code = "E1900"
  /\ Res.fail_c = Some("W2013") /\ Res.fail_t = Some(8)

\* The head lines of the complete blocks of log b, in order.  A block runs
\* from its 'Poor model convergence' line to the line before the next one;
\* it is complete when it holds a MAX DQ token and, after it, a MAX DH token.
BlockEnd(b, i) ==
  LET n == FirstIdx(b, i + 1, {"head"}) IN IF n = 0 THEN Len(b) ELSE n - 1

IsCompleteBlock(b, i) ==
  /\ b[i].k = "head"
  /\ \E j \in (i+1)..BlockEnd(b, i) :
       /\ b[j].k \in HasDQ
       /\ \/ b[j].k = "meas"
          \/ \E h \in (j+1)..BlockEnd(b, i) : b[h].k \in HasDH

CompleteHeads(b) == {i \in DOMAIN b : IsCompleteBlock(b, i)}

RECURSIVE SortedSeq(_)
SortedSeq(S) ==
  IF S = {} THEN <<>> ELSE <<SetMin(S)>> \o SortedSeq(S \ {SetMin(S)})

\* C12: a convergence block that lacks its MAX DQ or its MAX DH measurement
\* yields no record: no sample joins the time of one block with a
\* measurement of a later block, and every complete block, also one that
\* follows a partial block, is reported as its own sample.
C12_NoPartialBlocks ==
  Done =>
    LET ms == RE_CONV_finditer(zzd_bytes)
        heads == SortedSeq(CompleteHeads(zzd_bytes))
    IN /\ \A i \in DOMAIN ms :
            \A l \in (ms[i].first + 1)..ms[i].last : zzd_bytes[l].k # "head"
       /\ Times(Res.dq) =
            [i \in DOMAIN heads |-> FloatOfDigits(zzd_bytes[heads[i]].t)]

\* The number of bytes of a token that are not valid UTF-8, and the token
\* without them.
BadCount(tok) == Cardinality({i \in DOMAIN tok : tok[i] = BadByte})

RECURSIVE WithoutBad(_)
WithoutBad(tok) ==
  IF tok = <<>> THEN <<>>
  ELSE IF Head(tok) = BadByte THEN WithoutBad(Tail(tok))
  ELSE <<Head(tok)>> \o WithoutBad(Tail(tok))

\* C13 as stated: decoding a matched label never fails and puts a replacement
\* in place of each byte that is not valid text, so the decoded label is as
\* long as the matched token and never empty.
C13_BadBytesReplaced ==
  Done =>
    LET ws == RE_WARN_finditer(zzd_bytes)
        cs == RE_CONV_finditer(zzd_bytes)
    IN /\ \A i \in DOMAIN Res.warnings :
            /\ Len(Res.warnings[i].label) = Len(ws[i].g4)
            /\ Res.warnings[i].label # <<>>
       /\ \A i \in DOMAIN Res.dq :
            /\ Len(Res.dq[i].node) = Len(cs[i].g3)
            /\ Len(Res.dh[i].node) = Len(cs[i].g5)

\* C13 as amended: decoding a matched label never fails, and a byte that is
\* not valid text is dropped: the decoded label is the matched token without
\* its undecodable bytes, shorter than the token by one per such byte.
C13_BadBytesDropped ==
  Done =>
    LET ws == RE_WARN_finditer(zzd_bytes)
        cs == RE_CONV_finditer(zzd_bytes)
    IN /\ Len(Res.warnings) = Len(ws)
       /\ \A i \in DOMAIN Res.warnings :
            /\ Res.warnings[i].label = WithoutBad(ws[i].g4)
            /\ Len(Res.warnings[i].label) = Len(ws[i].g4) - BadCount(ws[i].g4)
       /\ Len(Res.dq) = Len(cs) /\ Len(Res.dh) = Len(cs)
       /\ \A i \in DOMAIN Res.dq :
            /\ Res.dq[i].node = WithoutBad(cs[i].g3)
            /\ Res.dh[i].node = WithoutBad(cs[i].g5)

\* An event whose label token holds one undecodable byte among three: the
\* decoded label has two characters.
C13_Witness ==
  /\ Done
  /\ \E i \in DOMAIN Res.warnings :
       /\ RE_WARN_finditer(zzd_bytes)[i].g4 = LBad
       /\ Res.warnings[i].label = <<"L", "7">>

\* The outcome of a call on log b that runs alone, from start to end.
Alone(b) ==
  LET c == ConvLoop(RE_CONV_finditer(b), <<>>, <<>>)
      w == WarnLoop(RE_WARN_finditer(b), <<>>, None, None)
      i == InferBounds(StartTimeOf(b), EndTimeOf(b), c.dq, w.warn)
      f == ForceBounds(i[1], i[2])
  IN IF c.raised THEN <<"raised", None>>
     ELSE <<"done", Some(ReturnValue(c.dq, c.dh, w.warn, f[1], f[2],
                                     w.last_err_t, w.last_err_c,
                                     IsFatalOf(b)))>>

\* C14: calls on logs of their own that run at the same time, their steps
\* interleaved in any way, each end as they would alone: no step of one call
\* writes a variable of the other.  (WARNING_DESCRIPTIONS is a constant of the
\* model: no statement of the source assigns to it.)
C14_ConcurrentCallsIndependent ==
  /\ [][other' # other => frame1' = frame1]_vars
  /\ [][frame1' # frame1 => other' = other]_vars
  /\ [](pc \in {"done", "raised"} => Outcome = Alone(zzd_bytes))
  /\ [](other.pc \in {"done", "raised"}
          => <<other.pc, other.result>> = Alone(other.zzd_bytes))

\* Both calls have returned, on different logs: one result holds diagnostic
\* events and a fatal status, the other holds samples.
C14_Witness ==
  /\ Done /\ other.pc = "done"
  /\ zzd_bytes # other.zzd_bytes
  /\ Res.warnings # <<>>
  /\ other.result[1].dq # <<>>
  /\ Outcome = Alone(zzd_bytes)

\* The value of the marker a call found, while the call runs.
StartValue == RE_START_search(PrefixWindow(zzd_bytes, StartWindow))[1].g1
EndValue == RE_END_search(SuffixWindow(zzd_bytes, EndWindow))[1].g1

\* The candidate pool of the running call: first and last sample time, first
\* and last diagnostic time.
RunPool ==
  (IF dq_data # <<>>
   THEN {dq_data[1].time, dq_data[Len(dq_data)].time} ELSE {})
  \cup (IF warn_data # <<>>
        THEN {warn_data[1].time, warn_data[Len(warn_data)].time} ELSE {})

\* C15: a marker found with the value 0.0 counts as absent.  With a start
\* marker of 0.0 and at least one record, the returned start is the minimum of
\* the pool; with an end marker of 0.0 and at least one record, the inference
\* step replaces the end by the maximum of the pool, and that maximum is the
\* returned end whenever it lies after the returned start.
C15_ZeroMarkerIsAbsent ==
  /\ []((Done /\ StartFound /\ StartValue = 0 /\ RunPool # {})
          => Res.start = SetMin(RunPool))
  /\ [][(pc = "infer" /\ EndFound /\ EndValue = 0 /\ RunPool # {})
          => end_time' = SetMax(RunPool)]_vars
  /\ []((Done /\ EndFound /\ EndValue = 0 /\ RunPool # {}
           /\ SetMax(RunPool) > Res.start)
          => Res.end = SetMax(RunPool))

\* Both markers are in the log with the value 0 and the records span 2 to 8:
\* the returned bounds are 2 and 8.
C15_Witness ==
  /\ Done /\ StartFound /\ EndFound
  /\ StartValue = 0 /\ EndValue = 0
  /\ RunPool # {}
  /\ Res.start = SetMin(RunPool) /\ Res.start > 0
  /\ Res.end = SetMax(RunPool) /\ Res.end > Res.start

\* C16: the inference changes nothing unless start or end is 0.0 when it
\* runs.  With both markers found and neither value 0.0, the returned start is
\* the start marker's value and the returned end is the end marker's value, or
\* start + 1.0 when the start value is not below the end value: whatever
\* samples and diagnostic events the log holds.
C16_NonZeroMarkersDecideBounds ==
  /\ [][(pc = "infer" /\ start_time # 0 /\ end_time # 0)
          => (start_time' = start_time /\ end_time' = end_time)]_vars
  /\ []((Done /\ StartFound /\ EndFound /\ StartValue # 0 /\ EndValue # 0)
          => /\ Res.start = FloatOfDigits(StartValue)
             /\ Res.end = IF FloatOfDigits(StartValue) >= FloatOfDigits(EndValue)
                          THEN FAdd(FloatOfDigits(StartValue), 1)
                          ELSE FloatOfDigits(EndValue))

\* Markers 2 and 9 and a sample at time 1, before the start: the bounds are
\* 2 and 9 all the same.
C16_Witness ==
  /\ Done /\ StartFound /\ EndFound
  /\ StartValue = 2 /\ EndValue = 9
  /\ Res.dq # <<>> /\ Res.dq[1].time = 1
  /\ Res.start = 2 /\ Res.end = 9

\* C17: a block gives a sample only when its MAX DQ token stands exactly two
\* line breaks after the time token: every returned sample comes from a match
\* whose MAX DQ line is the second line after its 'Poor model convergence'
\* line.
C17_ExactlyTwoLines ==
  Done => \A i \in DOMAIN Res.dq :
            LET m == RE_CONV_finditer(zzd_bytes)[i]
            IN m.dqat = m.first + 2

\* C18: every diagnostic event takes its time from the 'Model time' line of
\* its own unit: the annotation line of every returned event is the line
\* right after the 'Model time' line that gave the event its time.
C18_TimeFromOwnUnit ==
  Done => \A i \in DOMAIN Res.warnings :
            LET m == RE_WARN_finditer(zzd_bytes)[i]
            IN m.last = m.first + 1

\* The lines the matches of a pattern start on, in the order finditer gives
\* them, and the times of their time tokens.
MatchStarts(ms) == [i \in DOMAIN ms |-> ms[i].first]
MatchTimes(ms) == [i \in DOMAIN ms |-> FloatOfDigits(ms[i].g1)]
Increasing(s) == \A i, j \in DOMAIN s : i < j => s[i] < s[j]

OffsetOf(b, i) == ByteLen(SubSeq(b, 1, i - 1))
TailFrom(b, i) == ByteLen(SubSeq(b, i, Len(b)))

\* The number of digits of the numeral of a marker line.
NumeralLen(l) ==
  IF l.t >= Inf THEN l.len - MarkerLen - 1 ELSE NumDigits(l.t)

\* The 'start time' lines whose marker and whole numeral lie in the first
\* StartWindow bytes, and the 'end time' lines that lie in the last EndWindow
\* bytes.
StartsInside(b) ==
  {i \in DOMAIN b : /\ b[i].k = "start"
                    /\ OffsetOf(b, i) + MarkerLen + NumeralLen(b[i])
                         <= StartWindow}
EndsInside(b) ==
  {i \in DOMAIN b : b[i].k = "end" /\ TailFrom(b, i) <= EndWindow}

\* C20: right after the markers are read, start_time is the value of the
\* first 'start time' marker that lies with its whole numeral in the first
\* 5000 bytes and 0.0 if there is none, and end_time is the value of the first
\* 'end time' marker that lies in the last 5000 bytes and 0.0 if there is
\* none; a log shorter than the window is searched as a whole.
C20_MarkersInsideWindows ==
  pc = "conv" =>
    /\ start_time = IF StartsInside(zzd_bytes) = {} THEN 0
                    ELSE zzd_bytes[SetMin(StartsInside(zzd_bytes))].t
    /\ end_time = IF EndsInside(zzd_bytes) = {} THEN 0
                  ELSE zzd_bytes[SetMin(EndsInside(zzd_bytes))].t

\* The 'stopped in error' lines that lie wholly in the last FatalWindow bytes
\* (the phrase stands at the start of its line), those the left edge of the
\* window cuts, and whether the call has made its fatal test.
FatalInside(b) ==
  {i \in DOMAIN b : b[i].k = "fatal" /\ TailFrom(b, i) <= FatalWindow}
FatalAcrossEdge(b) ==
  {i \in DOMAIN b : /\ b[i].k = "fatal"
                    /\ TailFrom(b, i) > FatalWindow
                    /\ TailFrom(b, i) - b[i].len < FatalWindow}
FatalTested == pc \in {"infer", "force", "frames", "done"}

\* C21: the run is fatal only if the phrase 'stopped in error' lies wholly in
\* the last 2000 bytes of the log.  is_fatal is true exactly then, and with
\* every occurrence before the window or across its left edge the result has
\* no fatal time and no fatal code, even if ERROR events exist.
C21_FatalMarkerInsideWindow ==
  /\ FatalTested => (is_fatal <=> FatalInside(zzd_bytes) # {})
  /\ (Done /\ FatalInside(zzd_bytes) = {})
       => (Res.fail_t = None /\ Res.fail_c = None)

\* An ERROR event, then the phrase on a line the left edge of the window
\* cuts: the run is not fatal.
C21_Witness ==
  /\ Done
  /\ FatalAcrossEdge(zzd_bytes) # {}
  /\ FatalInside(zzd_bytes) = {}
  /\ ErrorRows # {}
  /\ ~is_fatal /\ Res.fail_t = None

\* The callback has built its figures from a result of extract_zzd_data.
Rendered == pc = "rendered" /\ result # None

\* The dict extract_zzd_data returned, computed again from the call's locals.
Extracted ==
  ReturnValue(dq_data, dh_data, warn_data, start_time, end_time,
              last_err_t, last_err_c, is_fatal)

\* C22: update_dashboard changes nothing in the result it was given: while
\* and after the figures are built the result is the dict extract_zzd_data
\* returned, and every event has the description extract_zzd_data gave it.
C22_ResultIsSnapshot ==
  (pc \in {"plot_warn", "plot_fail", "rendered"} /\ result # None)
    => /\ Res = Extracted
       /\ \A i \in DOMAIN Res.warnings :
            Res.warnings[i].note = Note(Res.warnings[i].code)

\* C23: the fatal-time marker is drawn exactly when the result has a fatal
\* status: with a fatal time, whatever its value, both figures have the FAIL
\* line at that time and the status text has FAILED AT that time; without
\* one, none of the three.
C23_FatalMarkerRendered ==
  Rendered =>
    /\ (Res.fail_t # None) =>
         /\ c_fig.vline # None /\ c_fig.vline[1].x = Res.fail_t[1]
         /\ w_fig.vline # None /\ w_fig.vline[1].x = Res.fail_t[1]
         /\ status[1].failed_at = Res.fail_t
    /\ (Res.fail_t = None) =>
         /\ c_fig.vline = None /\ w_fig.vline = None
         /\ status[1].failed_at = None

\* C24: a start marker found with a non-zero value is the returned start.
\* The inference step leaves a non-zero start as it is, the ordering step
\* never changes start, and the result has the marker's value whatever the
\* end marker and the record times are.
C24_NonZeroStartKept ==
  /\ [][(pc = "infer" /\ start_time # 0) => start_time' = start_time]_vars
  /\ [][pc = "force" => start_time' = start_time]_vars
  /\ []((Done /\ StartFound /\ StartValue # 0)
          => Res.start = FloatOfDigits(StartValue))

\* Start marker 2, end marker 1, a sample at time 1: start stays 2 and the
\* end is moved to 3.
C24_Witness ==
  /\ Done /\ StartFound /\ EndFound
  /\ StartValue = 2 /\ EndValue = 1
  /\ Res.dq # <<>> /\ Res.dq[1].time = 1
  /\ Res.start = 2 /\ Res.end = 3

NonDecreasing(s) == \A i, j \in DOMAIN s : i < j => s[i] <= s[j]

\* C25: with no time marker found and times that never go back within the
\* samples and within the diagnostic events, every sample time and every
\* event time of the result lies between the returned start and end.
C25_RecordsWithinBounds ==
  (Done /\ NoMarker /\ NonDecreasing(Times(Res.dq))
        /\ NonDecreasing(Times(Res.warnings)))
    => /\ \A i \in DOMAIN Res.dq :
            Res.start <= Res.dq[i].time /\ Res.dq[i].time <= Res.end
       /\ \A i \in DOMAIN Res.dh :
            Res.start <= Res.dh[i].time /\ Res.dh[i].time <= Res.end
       /\ \A i \in DOMAIN Res.warnings :
            /\ Res.start <= Res.warnings[i].time
            /\ Res.warnings[i].time <= Res.end

\* A sample at 3 between events at 0 and 12: the bounds are 0 and 12.
C25_Witness ==
  /\ Done /\ NoMarker
  /\ Times(Res.dq) = <<3>>
  /\ Times(Res.warnings) = <<0, 12>>
  /\ Res.start = 0 /\ Res.end = 12

\* The traces of the convergence figure that belong to a node, by their
\* position in the figure, and the nodes that have a trace.
TracesOf(node) ==
  {i \in DOMAIN c_fig.traces : c_fig.traces[i].legendgroup = node}
PlottedNodes ==
  {c_fig.traces[i].legendgroup : i \in DOMAIN c_fig.traces}

\* The nodes with a violation of the tolerance drawn in the figure: a DQ value
\* at or above qtol, a DH value at or above htol.
DqViolators ==
  {Res.dq[i].node : i \in {j \in DOMAIN Res.dq :
                             Abs(Res.dq[j].value) >= c_fig.hlines[1]}}
DhViolators ==
  {Res.dh[i].node : i \in {j \in DOMAIN Res.dh :
                             Abs(Res.dh[j].value) >= c_fig.hlines[2]}}

\* C26: in the convergence figure every node with a trace has exactly one
\* trace with showlegend set, and it is the first trace added for the node.
\* The DQ traces come before the DH traces, a node has at most one trace in
\* each row, and the nodes with a trace are the nodes with a violation in
\* either row: a node that violates in DH only has its one trace, with
\* showlegend set.
C26_OneLegendEntryPerNode ==
  c_fig.hlines # <<>> =>
    /\ \A node \in PlottedNodes :
         {i \in TracesOf(node) : c_fig.traces[i].showlegend}
           = {SetMin(TracesOf(node))}
    /\ \A i, j \in DOMAIN c_fig.traces :
         i < j => /\ c_fig.traces[i].row <= c_fig.traces[j].row
                  /\ (c_fig.traces[i].row = c_fig.traces[j].row
                        => c_fig.traces[i].legendgroup
                             # c_fig.traces[j].legendgroup)
    /\ PlottedNodes = DqViolators \cup DhViolators
    /\ \A node \in DhViolators \ DqViolators :
         /\ Cardinality(TracesOf(node)) = 1
         /\ \A i \in TracesOf(node) :
              c_fig.traces[i].row = 2 /\ c_fig.traces[i].showlegend

\* One node is plotted in both rows, with the legend entry on its DQ trace
\* only, and another node in the DH row only, with its own legend entry.
C26_Witness ==
  /\ Rendered
  /\ \E node \in PlottedNodes :
       /\ Cardinality(TracesOf(node)) = 2
       /\ c_fig.traces[SetMin(TracesOf(node))].row = 1
       /\ c_fig.traces[SetMin(TracesOf(node))].showlegend
       /\ ~c_fig.traces[SetMax(TracesOf(node))].showlegend
  /\ \E node \in DhViolators \ DqViolators :
       \A i \in TracesOf(node) : c_fig.traces[i].showlegend

=============================================================================
